---------------------------- MODULE Spec2Model ----------------------------
(***************************************************************************)
(* A model of python-pdfbox (src/pdfbox/__init__.py): the resolution of    *)
(* the PDFBox jar (environment override, cache directory, download and     *)
(* SHA-512 verification), the selection of the latest version, and the     *)
(* command lines the facade builds.                                        *)
(*                                                                         *)
(* A text the program looks into (a version, a file name, a URL, a         *)
(* checksum) is the sequence of the code points of its characters:         *)
(* <<50, 46, 49, 48, 46, 48>> is '2.10.0'.  A command line is the          *)
(* sequence of its words.                                                  *)
(***************************************************************************)
EXTENDS Integers, Sequences, FiniteSets, TLC

VARIABLES
    \* ---- resolution of the jar (PDFBox.__init__ / _get_pdfbox_path)
    pc,         \* per process: position inside PDFBox.__init__
    env,        \* per process: os.environ['PDFBOX'] (<<>> when unset)
    cacheDir,   \* whether the cache directory exists
    cache,      \* the cache directory: file name -> [data, verified]
    listing,    \* per process: the archive page it read (<<>> before)
    url,        \* per process: pdfbox_url
    data,       \* per process: the downloaded jar body
    offset,     \* per process: bytes of data already written to the file
    ret,        \* per process: outcome of the construction
    netCount,   \* per process: urlopen calls of the current construction
    scans,      \* per process: cache_dir.glob calls of the construction
    built,      \* per process: constructions started so far
    \* ---- command building (extract_text, split_file, ...)
    call,       \* the last facade call: operation and arguments
    cmd,        \* the command line it built (sequence of words)
    retval,     \* what the call returned
    \* ---- the selection of the latest version, on its own
    tried,      \* the versions the selection is tried on, as a page and as files
    chosen      \* what it selected (<<>> before)

resVars == <<pc, env, cacheDir, cache, listing, url, data, offset, ret, netCount, scans, built>>
cmdVars == <<call, cmd, retval>>
selVars == <<tried, chosen>>
vars == <<pc, env, cacheDir, cache, listing, url, data, offset, ret, netCount, scans, built,
          call, cmd, retval, tried, chosen>>

(***************************************************************************)
(* Bounds                                                                  *)
(***************************************************************************)
\* constructions of the facade each process performs
MaxConstructions == 2
\* source files handed to one merge call
MaxSources == 2
\* versions on an archive page, or jars in a cache directory, that the
\* selection is tried on
MaxEntries == 3

Procs == {"p1", "p2"}

(***************************************************************************)
(* Character tables                                                        *)
(***************************************************************************)
\* \d of a str pattern: the decimal digits of Unicode 14.0 (CPython 3.11),
\* as ranges of code points
DecimalRanges ==
  <<
    <<48, 57>>, <<1632, 1641>>, <<1776, 1785>>, <<1984, 1993>>,
    <<2406, 2415>>, <<2534, 2543>>, <<2662, 2671>>, <<2790, 2799>>,
    <<2918, 2927>>, <<3046, 3055>>, <<3174, 3183>>, <<3302, 3311>>,
    <<3430, 3439>>, <<3558, 3567>>, <<3664, 3673>>, <<3792, 3801>>,
    <<3872, 3881>>, <<4160, 4169>>, <<4240, 4249>>, <<6112, 6121>>,
    <<6160, 6169>>, <<6470, 6479>>, <<6608, 6617>>, <<6784, 6793>>,
    <<6800, 6809>>, <<6992, 7001>>, <<7088, 7097>>, <<7232, 7241>>,
    <<7248, 7257>>, <<42528, 42537>>, <<43216, 43225>>, <<43264, 43273>>,
    <<43472, 43481>>, <<43504, 43513>>, <<43600, 43609>>, <<44016, 44025>>,
    <<65296, 65305>>, <<66720, 66729>>, <<68912, 68921>>, <<69734, 69743>>,
    <<69872, 69881>>, <<69942, 69951>>, <<70096, 70105>>, <<70384, 70393>>,
    <<70736, 70745>>, <<70864, 70873>>, <<71248, 71257>>, <<71360, 71369>>,
    <<71472, 71481>>, <<71904, 71913>>, <<72016, 72025>>, <<72784, 72793>>,
    <<73040, 73049>>, <<73120, 73129>>, <<92768, 92777>>, <<92864, 92873>>,
    <<93008, 93017>>, <<120782, 120831>>, <<123200, 123209>>,
    <<123632, 123641>>, <<125264, 125273>>, <<130032, 130041>>
  >>

\* \w of a str pattern: the alphanumeric characters of Unicode 14.0 and "_"
WordRanges ==
  <<
    <<48, 57>>, <<65, 90>>, <<95, 95>>, <<97, 122>>, <<170, 170>>,
    <<178, 179>>, <<181, 181>>, <<185, 186>>, <<188, 190>>, <<192, 214>>,
    <<216, 246>>, <<248, 705>>, <<710, 721>>, <<736, 740>>, <<748, 748>>,
    <<750, 750>>, <<880, 884>>, <<886, 887>>, <<890, 893>>, <<895, 895>>,
    <<902, 902>>, <<904, 906>>, <<908, 908>>, <<910, 929>>, <<931, 1013>>,
    <<1015, 1153>>, <<1162, 1327>>, <<1329, 1366>>, <<1369, 1369>>,
    <<1376, 1416>>, <<1488, 1514>>, <<1519, 1522>>, <<1568, 1610>>,
    <<1632, 1641>>, <<1646, 1647>>, <<1649, 1747>>, <<1749, 1749>>,
    <<1765, 1766>>, <<1774, 1788>>, <<1791, 1791>>, <<1808, 1808>>,
    <<1810, 1839>>, <<1869, 1957>>, <<1969, 1969>>, <<1984, 2026>>,
    <<2036, 2037>>, <<2042, 2042>>, <<2048, 2069>>, <<2074, 2074>>,
    <<2084, 2084>>, <<2088, 2088>>, <<2112, 2136>>, <<2144, 2154>>,
    <<2160, 2183>>, <<2185, 2190>>, <<2208, 2249>>, <<2308, 2361>>,
    <<2365, 2365>>, <<2384, 2384>>, <<2392, 2401>>, <<2406, 2415>>,
    <<2417, 2432>>, <<2437, 2444>>, <<2447, 2448>>, <<2451, 2472>>,
    <<2474, 2480>>, <<2482, 2482>>, <<2486, 2489>>, <<2493, 2493>>,
    <<2510, 2510>>, <<2524, 2525>>, <<2527, 2529>>, <<2534, 2545>>,
    <<2548, 2553>>, <<2556, 2556>>, <<2565, 2570>>, <<2575, 2576>>,
    <<2579, 2600>>, <<2602, 2608>>, <<2610, 2611>>, <<2613, 2614>>,
    <<2616, 2617>>, <<2649, 2652>>, <<2654, 2654>>, <<2662, 2671>>,
    <<2674, 2676>>, <<2693, 2701>>, <<2703, 2705>>, <<2707, 2728>>,
    <<2730, 2736>>, <<2738, 2739>>, <<2741, 2745>>, <<2749, 2749>>,
    <<2768, 2768>>, <<2784, 2785>>, <<2790, 2799>>, <<2809, 2809>>,
    <<2821, 2828>>, <<2831, 2832>>, <<2835, 2856>>, <<2858, 2864>>,
    <<2866, 2867>>, <<2869, 2873>>, <<2877, 2877>>, <<2908, 2909>>,
    <<2911, 2913>>, <<2918, 2927>>, <<2929, 2935>>, <<2947, 2947>>,
    <<2949, 2954>>, <<2958, 2960>>, <<2962, 2965>>, <<2969, 2970>>,
    <<2972, 2972>>, <<2974, 2975>>, <<2979, 2980>>, <<2984, 2986>>,
    <<2990, 3001>>, <<3024, 3024>>, <<3046, 3058>>, <<3077, 3084>>,
    <<3086, 3088>>, <<3090, 3112>>, <<3114, 3129>>, <<3133, 3133>>,
    <<3160, 3162>>, <<3165, 3165>>, <<3168, 3169>>, <<3174, 3183>>,
    <<3192, 3198>>, <<3200, 3200>>, <<3205, 3212>>, <<3214, 3216>>,
    <<3218, 3240>>, <<3242, 3251>>, <<3253, 3257>>, <<3261, 3261>>,
    <<3293, 3294>>, <<3296, 3297>>, <<3302, 3311>>, <<3313, 3314>>,
    <<3332, 3340>>, <<3342, 3344>>, <<3346, 3386>>, <<3389, 3389>>,
    <<3406, 3406>>, <<3412, 3414>>, <<3416, 3425>>, <<3430, 3448>>,
    <<3450, 3455>>, <<3461, 3478>>, <<3482, 3505>>, <<3507, 3515>>,
    <<3517, 3517>>, <<3520, 3526>>, <<3558, 3567>>, <<3585, 3632>>,
    <<3634, 3635>>, <<3648, 3654>>, <<3664, 3673>>, <<3713, 3714>>,
    <<3716, 3716>>, <<3718, 3722>>, <<3724, 3747>>, <<3749, 3749>>,
    <<3751, 3760>>, <<3762, 3763>>, <<3773, 3773>>, <<3776, 3780>>,
    <<3782, 3782>>, <<3792, 3801>>, <<3804, 3807>>, <<3840, 3840>>,
    <<3872, 3891>>, <<3904, 3911>>, <<3913, 3948>>, <<3976, 3980>>,
    <<4096, 4138>>, <<4159, 4169>>, <<4176, 4181>>, <<4186, 4189>>,
    <<4193, 4193>>, <<4197, 4198>>, <<4206, 4208>>, <<4213, 4225>>,
    <<4238, 4238>>, <<4240, 4249>>, <<4256, 4293>>, <<4295, 4295>>,
    <<4301, 4301>>, <<4304, 4346>>, <<4348, 4680>>, <<4682, 4685>>,
    <<4688, 4694>>, <<4696, 4696>>, <<4698, 4701>>, <<4704, 4744>>,
    <<4746, 4749>>, <<4752, 4784>>, <<4786, 4789>>, <<4792, 4798>>,
    <<4800, 4800>>, <<4802, 4805>>, <<4808, 4822>>, <<4824, 4880>>,
    <<4882, 4885>>, <<4888, 4954>>, <<4969, 4988>>, <<4992, 5007>>,
    <<5024, 5109>>, <<5112, 5117>>, <<5121, 5740>>, <<5743, 5759>>,
    <<5761, 5786>>, <<5792, 5866>>, <<5870, 5880>>, <<5888, 5905>>,
    <<5919, 5937>>, <<5952, 5969>>, <<5984, 5996>>, <<5998, 6000>>,
    <<6016, 6067>>, <<6103, 6103>>, <<6108, 6108>>, <<6112, 6121>>,
    <<6128, 6137>>, <<6160, 6169>>, <<6176, 6264>>, <<6272, 6276>>,
    <<6279, 6312>>, <<6314, 6314>>, <<6320, 6389>>, <<6400, 6430>>,
    <<6470, 6509>>, <<6512, 6516>>, <<6528, 6571>>, <<6576, 6601>>,
    <<6608, 6618>>, <<6656, 6678>>, <<6688, 6740>>, <<6784, 6793>>,
    <<6800, 6809>>, <<6823, 6823>>, <<6917, 6963>>, <<6981, 6988>>,
    <<6992, 7001>>, <<7043, 7072>>, <<7086, 7141>>, <<7168, 7203>>,
    <<7232, 7241>>, <<7245, 7293>>, <<7296, 7304>>, <<7312, 7354>>,
    <<7357, 7359>>, <<7401, 7404>>, <<7406, 7411>>, <<7413, 7414>>,
    <<7418, 7418>>, <<7424, 7615>>, <<7680, 7957>>, <<7960, 7965>>,
    <<7968, 8005>>, <<8008, 8013>>, <<8016, 8023>>, <<8025, 8025>>,
    <<8027, 8027>>, <<8029, 8029>>, <<8031, 8061>>, <<8064, 8116>>,
    <<8118, 8124>>, <<8126, 8126>>, <<8130, 8132>>, <<8134, 8140>>,
    <<8144, 8147>>, <<8150, 8155>>, <<8160, 8172>>, <<8178, 8180>>,
    <<8182, 8188>>, <<8304, 8305>>, <<8308, 8313>>, <<8319, 8329>>,
    <<8336, 8348>>, <<8450, 8450>>, <<8455, 8455>>, <<8458, 8467>>,
    <<8469, 8469>>, <<8473, 8477>>, <<8484, 8484>>, <<8486, 8486>>,
    <<8488, 8488>>, <<8490, 8493>>, <<8495, 8505>>, <<8508, 8511>>,
    <<8517, 8521>>, <<8526, 8526>>, <<8528, 8585>>, <<9312, 9371>>,
    <<9450, 9471>>, <<10102, 10131>>, <<11264, 11492>>, <<11499, 11502>>,
    <<11506, 11507>>, <<11517, 11517>>, <<11520, 11557>>, <<11559, 11559>>,
    <<11565, 11565>>, <<11568, 11623>>, <<11631, 11631>>, <<11648, 11670>>,
    <<11680, 11686>>, <<11688, 11694>>, <<11696, 11702>>, <<11704, 11710>>,
    <<11712, 11718>>, <<11720, 11726>>, <<11728, 11734>>, <<11736, 11742>>,
    <<11823, 11823>>, <<12293, 12295>>, <<12321, 12329>>, <<12337, 12341>>,
    <<12344, 12348>>, <<12353, 12438>>, <<12445, 12447>>, <<12449, 12538>>,
    <<12540, 12543>>, <<12549, 12591>>, <<12593, 12686>>, <<12690, 12693>>,
    <<12704, 12735>>, <<12784, 12799>>, <<12832, 12841>>, <<12872, 12879>>,
    <<12881, 12895>>, <<12928, 12937>>, <<12977, 12991>>, <<13312, 19903>>,
    <<19968, 42124>>, <<42192, 42237>>, <<42240, 42508>>, <<42512, 42539>>,
    <<42560, 42606>>, <<42623, 42653>>, <<42656, 42735>>, <<42775, 42783>>,
    <<42786, 42888>>, <<42891, 42954>>, <<42960, 42961>>, <<42963, 42963>>,
    <<42965, 42969>>, <<42994, 43009>>, <<43011, 43013>>, <<43015, 43018>>,
    <<43020, 43042>>, <<43056, 43061>>, <<43072, 43123>>, <<43138, 43187>>,
    <<43216, 43225>>, <<43250, 43255>>, <<43259, 43259>>, <<43261, 43262>>,
    <<43264, 43301>>, <<43312, 43334>>, <<43360, 43388>>, <<43396, 43442>>,
    <<43471, 43481>>, <<43488, 43492>>, <<43494, 43518>>, <<43520, 43560>>,
    <<43584, 43586>>, <<43588, 43595>>, <<43600, 43609>>, <<43616, 43638>>,
    <<43642, 43642>>, <<43646, 43695>>, <<43697, 43697>>, <<43701, 43702>>,
    <<43705, 43709>>, <<43712, 43712>>, <<43714, 43714>>, <<43739, 43741>>,
    <<43744, 43754>>, <<43762, 43764>>, <<43777, 43782>>, <<43785, 43790>>,
    <<43793, 43798>>, <<43808, 43814>>, <<43816, 43822>>, <<43824, 43866>>,
    <<43868, 43881>>, <<43888, 44002>>, <<44016, 44025>>, <<44032, 55203>>,
    <<55216, 55238>>, <<55243, 55291>>, <<63744, 64109>>, <<64112, 64217>>,
    <<64256, 64262>>, <<64275, 64279>>, <<64285, 64285>>, <<64287, 64296>>,
    <<64298, 64310>>, <<64312, 64316>>, <<64318, 64318>>, <<64320, 64321>>,
    <<64323, 64324>>, <<64326, 64433>>, <<64467, 64829>>, <<64848, 64911>>,
    <<64914, 64967>>, <<65008, 65019>>, <<65136, 65140>>, <<65142, 65276>>,
    <<65296, 65305>>, <<65313, 65338>>, <<65345, 65370>>, <<65382, 65470>>,
    <<65474, 65479>>, <<65482, 65487>>, <<65490, 65495>>, <<65498, 65500>>,
    <<65536, 65547>>, <<65549, 65574>>, <<65576, 65594>>, <<65596, 65597>>,
    <<65599, 65613>>, <<65616, 65629>>, <<65664, 65786>>, <<65799, 65843>>,
    <<65856, 65912>>, <<65930, 65931>>, <<66176, 66204>>, <<66208, 66256>>,
    <<66273, 66299>>, <<66304, 66339>>, <<66349, 66378>>, <<66384, 66421>>,
    <<66432, 66461>>, <<66464, 66499>>, <<66504, 66511>>, <<66513, 66517>>,
    <<66560, 66717>>, <<66720, 66729>>, <<66736, 66771>>, <<66776, 66811>>,
    <<66816, 66855>>, <<66864, 66915>>, <<66928, 66938>>, <<66940, 66954>>,
    <<66956, 66962>>, <<66964, 66965>>, <<66967, 66977>>, <<66979, 66993>>,
    <<66995, 67001>>, <<67003, 67004>>, <<67072, 67382>>, <<67392, 67413>>,
    <<67424, 67431>>, <<67456, 67461>>, <<67463, 67504>>, <<67506, 67514>>,
    <<67584, 67589>>, <<67592, 67592>>, <<67594, 67637>>, <<67639, 67640>>,
    <<67644, 67644>>, <<67647, 67669>>, <<67672, 67702>>, <<67705, 67742>>,
    <<67751, 67759>>, <<67808, 67826>>, <<67828, 67829>>, <<67835, 67867>>,
    <<67872, 67897>>, <<67968, 68023>>, <<68028, 68047>>, <<68050, 68096>>,
    <<68112, 68115>>, <<68117, 68119>>, <<68121, 68149>>, <<68160, 68168>>,
    <<68192, 68222>>, <<68224, 68255>>, <<68288, 68295>>, <<68297, 68324>>,
    <<68331, 68335>>, <<68352, 68405>>, <<68416, 68437>>, <<68440, 68466>>,
    <<68472, 68497>>, <<68521, 68527>>, <<68608, 68680>>, <<68736, 68786>>,
    <<68800, 68850>>, <<68858, 68899>>, <<68912, 68921>>, <<69216, 69246>>,
    <<69248, 69289>>, <<69296, 69297>>, <<69376, 69415>>, <<69424, 69445>>,
    <<69457, 69460>>, <<69488, 69505>>, <<69552, 69579>>, <<69600, 69622>>,
    <<69635, 69687>>, <<69714, 69743>>, <<69745, 69746>>, <<69749, 69749>>,
    <<69763, 69807>>, <<69840, 69864>>, <<69872, 69881>>, <<69891, 69926>>,
    <<69942, 69951>>, <<69956, 69956>>, <<69959, 69959>>, <<69968, 70002>>,
    <<70006, 70006>>, <<70019, 70066>>, <<70081, 70084>>, <<70096, 70106>>,
    <<70108, 70108>>, <<70113, 70132>>, <<70144, 70161>>, <<70163, 70187>>,
    <<70272, 70278>>, <<70280, 70280>>, <<70282, 70285>>, <<70287, 70301>>,
    <<70303, 70312>>, <<70320, 70366>>, <<70384, 70393>>, <<70405, 70412>>,
    <<70415, 70416>>, <<70419, 70440>>, <<70442, 70448>>, <<70450, 70451>>,
    <<70453, 70457>>, <<70461, 70461>>, <<70480, 70480>>, <<70493, 70497>>,
    <<70656, 70708>>, <<70727, 70730>>, <<70736, 70745>>, <<70751, 70753>>,
    <<70784, 70831>>, <<70852, 70853>>, <<70855, 70855>>, <<70864, 70873>>,
    <<71040, 71086>>, <<71128, 71131>>, <<71168, 71215>>, <<71236, 71236>>,
    <<71248, 71257>>, <<71296, 71338>>, <<71352, 71352>>, <<71360, 71369>>,
    <<71424, 71450>>, <<71472, 71483>>, <<71488, 71494>>, <<71680, 71723>>,
    <<71840, 71922>>, <<71935, 71942>>, <<71945, 71945>>, <<71948, 71955>>,
    <<71957, 71958>>, <<71960, 71983>>, <<71999, 71999>>, <<72001, 72001>>,
    <<72016, 72025>>, <<72096, 72103>>, <<72106, 72144>>, <<72161, 72161>>,
    <<72163, 72163>>, <<72192, 72192>>, <<72203, 72242>>, <<72250, 72250>>,
    <<72272, 72272>>, <<72284, 72329>>, <<72349, 72349>>, <<72368, 72440>>,
    <<72704, 72712>>, <<72714, 72750>>, <<72768, 72768>>, <<72784, 72812>>,
    <<72818, 72847>>, <<72960, 72966>>, <<72968, 72969>>, <<72971, 73008>>,
    <<73030, 73030>>, <<73040, 73049>>, <<73056, 73061>>, <<73063, 73064>>,
    <<73066, 73097>>, <<73112, 73112>>, <<73120, 73129>>, <<73440, 73458>>,
    <<73648, 73648>>, <<73664, 73684>>, <<73728, 74649>>, <<74752, 74862>>,
    <<74880, 75075>>, <<77712, 77808>>, <<77824, 78894>>, <<82944, 83526>>,
    <<92160, 92728>>, <<92736, 92766>>, <<92768, 92777>>, <<92784, 92862>>,
    <<92864, 92873>>, <<92880, 92909>>, <<92928, 92975>>, <<92992, 92995>>,
    <<93008, 93017>>, <<93019, 93025>>, <<93027, 93047>>, <<93053, 93071>>,
    <<93760, 93846>>, <<93952, 94026>>, <<94032, 94032>>, <<94099, 94111>>,
    <<94176, 94177>>, <<94179, 94179>>, <<94208, 100343>>,
    <<100352, 101589>>, <<101632, 101640>>, <<110576, 110579>>,
    <<110581, 110587>>, <<110589, 110590>>, <<110592, 110882>>,
    <<110928, 110930>>, <<110948, 110951>>, <<110960, 111355>>,
    <<113664, 113770>>, <<113776, 113788>>, <<113792, 113800>>,
    <<113808, 113817>>, <<119520, 119539>>, <<119648, 119672>>,
    <<119808, 119892>>, <<119894, 119964>>, <<119966, 119967>>,
    <<119970, 119970>>, <<119973, 119974>>, <<119977, 119980>>,
    <<119982, 119993>>, <<119995, 119995>>, <<119997, 120003>>,
    <<120005, 120069>>, <<120071, 120074>>, <<120077, 120084>>,
    <<120086, 120092>>, <<120094, 120121>>, <<120123, 120126>>,
    <<120128, 120132>>, <<120134, 120134>>, <<120138, 120144>>,
    <<120146, 120485>>, <<120488, 120512>>, <<120514, 120538>>,
    <<120540, 120570>>, <<120572, 120596>>, <<120598, 120628>>,
    <<120630, 120654>>, <<120656, 120686>>, <<120688, 120712>>,
    <<120714, 120744>>, <<120746, 120770>>, <<120772, 120779>>,
    <<120782, 120831>>, <<122624, 122654>>, <<123136, 123180>>,
    <<123191, 123197>>, <<123200, 123209>>, <<123214, 123214>>,
    <<123536, 123565>>, <<123584, 123627>>, <<123632, 123641>>,
    <<124896, 124902>>, <<124904, 124907>>, <<124909, 124910>>,
    <<124912, 124926>>, <<124928, 125124>>, <<125127, 125135>>,
    <<125184, 125251>>, <<125259, 125259>>, <<125264, 125273>>,
    <<126065, 126123>>, <<126125, 126127>>, <<126129, 126132>>,
    <<126209, 126253>>, <<126255, 126269>>, <<126464, 126467>>,
    <<126469, 126495>>, <<126497, 126498>>, <<126500, 126500>>,
    <<126503, 126503>>, <<126505, 126514>>, <<126516, 126519>>,
    <<126521, 126521>>, <<126523, 126523>>, <<126530, 126530>>,
    <<126535, 126535>>, <<126537, 126537>>, <<126539, 126539>>,
    <<126541, 126543>>, <<126545, 126546>>, <<126548, 126548>>,
    <<126551, 126551>>, <<126553, 126553>>, <<126555, 126555>>,
    <<126557, 126557>>, <<126559, 126559>>, <<126561, 126562>>,
    <<126564, 126564>>, <<126567, 126570>>, <<126572, 126578>>,
    <<126580, 126583>>, <<126585, 126588>>, <<126590, 126590>>,
    <<126592, 126601>>, <<126603, 126619>>, <<126625, 126627>>,
    <<126629, 126633>>, <<126635, 126651>>, <<127232, 127244>>,
    <<130032, 130041>>, <<131072, 173791>>, <<173824, 177976>>,
    <<177984, 178205>>, <<178208, 183969>>, <<183984, 191456>>,
    <<194560, 195101>>, <<196608, 201546>>
  >>

\* str.lower() of one character, where it is another single character:
\* <<first, last, step, offset>>
LowerRuns ==
  <<
    <<65, 90, 1, 32>>, <<192, 214, 1, 32>>, <<216, 222, 1, 32>>,
    <<256, 302, 2, 1>>, <<306, 310, 2, 1>>, <<313, 327, 2, 1>>,
    <<330, 374, 2, 1>>, <<376, 376, 1, -121>>, <<377, 381, 2, 1>>,
    <<385, 385, 1, 210>>, <<386, 388, 2, 1>>, <<390, 390, 1, 206>>,
    <<391, 391, 1, 1>>, <<393, 394, 1, 205>>, <<395, 395, 1, 1>>,
    <<398, 398, 1, 79>>, <<399, 399, 1, 202>>, <<400, 400, 1, 203>>,
    <<401, 401, 1, 1>>, <<403, 403, 1, 205>>, <<404, 404, 1, 207>>,
    <<406, 406, 1, 211>>, <<407, 407, 1, 209>>, <<408, 408, 1, 1>>,
    <<412, 412, 1, 211>>, <<413, 413, 1, 213>>, <<415, 415, 1, 214>>,
    <<416, 420, 2, 1>>, <<422, 422, 1, 218>>, <<423, 423, 1, 1>>,
    <<425, 425, 1, 218>>, <<428, 428, 1, 1>>, <<430, 430, 1, 218>>,
    <<431, 431, 1, 1>>, <<433, 434, 1, 217>>, <<435, 437, 2, 1>>,
    <<439, 439, 1, 219>>, <<440, 440, 1, 1>>, <<444, 444, 1, 1>>,
    <<452, 452, 1, 2>>, <<453, 453, 1, 1>>, <<455, 455, 1, 2>>,
    <<456, 456, 1, 1>>, <<458, 458, 1, 2>>, <<459, 475, 2, 1>>,
    <<478, 494, 2, 1>>, <<497, 497, 1, 2>>, <<498, 500, 2, 1>>,
    <<502, 502, 1, -97>>, <<503, 503, 1, -56>>, <<504, 542, 2, 1>>,
    <<544, 544, 1, -130>>, <<546, 562, 2, 1>>, <<570, 570, 1, 10795>>,
    <<571, 571, 1, 1>>, <<573, 573, 1, -163>>, <<574, 574, 1, 10792>>,
    <<577, 577, 1, 1>>, <<579, 579, 1, -195>>, <<580, 580, 1, 69>>,
    <<581, 581, 1, 71>>, <<582, 590, 2, 1>>, <<880, 882, 2, 1>>,
    <<886, 886, 1, 1>>, <<895, 895, 1, 116>>, <<902, 902, 1, 38>>,
    <<904, 906, 1, 37>>, <<908, 908, 1, 64>>, <<910, 911, 1, 63>>,
    <<913, 929, 1, 32>>, <<931, 939, 1, 32>>, <<975, 975, 1, 8>>,
    <<984, 1006, 2, 1>>, <<1012, 1012, 1, -60>>, <<1015, 1015, 1, 1>>,
    <<1017, 1017, 1, -7>>, <<1018, 1018, 1, 1>>, <<1021, 1023, 1, -130>>,
    <<1024, 1039, 1, 80>>, <<1040, 1071, 1, 32>>, <<1120, 1152, 2, 1>>,
    <<1162, 1214, 2, 1>>, <<1216, 1216, 1, 15>>, <<1217, 1229, 2, 1>>,
    <<1232, 1326, 2, 1>>, <<1329, 1366, 1, 48>>, <<4256, 4293, 1, 7264>>,
    <<4295, 4295, 1, 7264>>, <<4301, 4301, 1, 7264>>,
    <<5024, 5103, 1, 38864>>, <<5104, 5109, 1, 8>>,
    <<7312, 7354, 1, -3008>>, <<7357, 7359, 1, -3008>>,
    <<7680, 7828, 2, 1>>, <<7838, 7838, 1, -7615>>, <<7840, 7934, 2, 1>>,
    <<7944, 7951, 1, -8>>, <<7960, 7965, 1, -8>>, <<7976, 7983, 1, -8>>,
    <<7992, 7999, 1, -8>>, <<8008, 8013, 1, -8>>, <<8025, 8031, 2, -8>>,
    <<8040, 8047, 1, -8>>, <<8072, 8079, 1, -8>>, <<8088, 8095, 1, -8>>,
    <<8104, 8111, 1, -8>>, <<8120, 8121, 1, -8>>, <<8122, 8123, 1, -74>>,
    <<8124, 8124, 1, -9>>, <<8136, 8139, 1, -86>>, <<8140, 8140, 1, -9>>,
    <<8152, 8153, 1, -8>>, <<8154, 8155, 1, -100>>, <<8168, 8169, 1, -8>>,
    <<8170, 8171, 1, -112>>, <<8172, 8172, 1, -7>>,
    <<8184, 8185, 1, -128>>, <<8186, 8187, 1, -126>>,
    <<8188, 8188, 1, -9>>, <<8486, 8486, 1, -7517>>,
    <<8490, 8490, 1, -8383>>, <<8491, 8491, 1, -8262>>,
    <<8498, 8498, 1, 28>>, <<8544, 8559, 1, 16>>, <<8579, 8579, 1, 1>>,
    <<9398, 9423, 1, 26>>, <<11264, 11311, 1, 48>>, <<11360, 11360, 1, 1>>,
    <<11362, 11362, 1, -10743>>, <<11363, 11363, 1, -3814>>,
    <<11364, 11364, 1, -10727>>, <<11367, 11371, 2, 1>>,
    <<11373, 11373, 1, -10780>>, <<11374, 11374, 1, -10749>>,
    <<11375, 11375, 1, -10783>>, <<11376, 11376, 1, -10782>>,
    <<11378, 11378, 1, 1>>, <<11381, 11381, 1, 1>>,
    <<11390, 11391, 1, -10815>>, <<11392, 11490, 2, 1>>,
    <<11499, 11501, 2, 1>>, <<11506, 11506, 1, 1>>, <<42560, 42604, 2, 1>>,
    <<42624, 42650, 2, 1>>, <<42786, 42798, 2, 1>>, <<42802, 42862, 2, 1>>,
    <<42873, 42875, 2, 1>>, <<42877, 42877, 1, -35332>>,
    <<42878, 42886, 2, 1>>, <<42891, 42891, 1, 1>>,
    <<42893, 42893, 1, -42280>>, <<42896, 42898, 2, 1>>,
    <<42902, 42920, 2, 1>>, <<42922, 42922, 1, -42308>>,
    <<42923, 42923, 1, -42319>>, <<42924, 42924, 1, -42315>>,
    <<42925, 42925, 1, -42305>>, <<42926, 42926, 1, -42308>>,
    <<42928, 42928, 1, -42258>>, <<42929, 42929, 1, -42282>>,
    <<42930, 42930, 1, -42261>>, <<42931, 42931, 1, 928>>,
    <<42932, 42946, 2, 1>>, <<42948, 42948, 1, -48>>,
    <<42949, 42949, 1, -42307>>, <<42950, 42950, 1, -35384>>,
    <<42951, 42953, 2, 1>>, <<42960, 42960, 1, 1>>, <<42966, 42968, 2, 1>>,
    <<42997, 42997, 1, 1>>, <<65313, 65338, 1, 32>>,
    <<66560, 66599, 1, 40>>, <<66736, 66771, 1, 40>>,
    <<66928, 66938, 1, 39>>, <<66940, 66954, 1, 39>>,
    <<66956, 66962, 1, 39>>, <<66964, 66965, 1, 39>>,
    <<68736, 68786, 1, 64>>, <<71840, 71871, 1, 32>>,
    <<93760, 93791, 1, 32>>, <<125184, 125217, 1, 34>>
  >>

\* the cased characters that are not case-ignorable, and the case-ignorable
\* ones: what str.lower() looks at around a capital sigma
CasedRanges ==
  <<
    <<65, 90>>, <<97, 122>>, <<170, 170>>, <<181, 181>>, <<186, 186>>,
    <<192, 214>>, <<216, 246>>, <<248, 442>>, <<444, 447>>, <<452, 659>>,
    <<661, 687>>, <<880, 883>>, <<886, 887>>, <<891, 893>>, <<895, 895>>,
    <<902, 902>>, <<904, 906>>, <<908, 908>>, <<910, 929>>, <<931, 1013>>,
    <<1015, 1153>>, <<1162, 1327>>, <<1329, 1366>>, <<1376, 1416>>,
    <<4256, 4293>>, <<4295, 4295>>, <<4301, 4301>>, <<4304, 4346>>,
    <<4349, 4351>>, <<5024, 5109>>, <<5112, 5117>>, <<7296, 7304>>,
    <<7312, 7354>>, <<7357, 7359>>, <<7424, 7467>>, <<7531, 7543>>,
    <<7545, 7578>>, <<7680, 7957>>, <<7960, 7965>>, <<7968, 8005>>,
    <<8008, 8013>>, <<8016, 8023>>, <<8025, 8025>>, <<8027, 8027>>,
    <<8029, 8029>>, <<8031, 8061>>, <<8064, 8116>>, <<8118, 8124>>,
    <<8126, 8126>>, <<8130, 8132>>, <<8134, 8140>>, <<8144, 8147>>,
    <<8150, 8155>>, <<8160, 8172>>, <<8178, 8180>>, <<8182, 8188>>,
    <<8450, 8450>>, <<8455, 8455>>, <<8458, 8467>>, <<8469, 8469>>,
    <<8473, 8477>>, <<8484, 8484>>, <<8486, 8486>>, <<8488, 8488>>,
    <<8490, 8493>>, <<8495, 8500>>, <<8505, 8505>>, <<8508, 8511>>,
    <<8517, 8521>>, <<8526, 8526>>, <<8544, 8575>>, <<8579, 8580>>,
    <<9398, 9449>>, <<11264, 11387>>, <<11390, 11492>>, <<11499, 11502>>,
    <<11506, 11507>>, <<11520, 11557>>, <<11559, 11559>>, <<11565, 11565>>,
    <<42560, 42605>>, <<42624, 42651>>, <<42786, 42863>>, <<42865, 42887>>,
    <<42891, 42894>>, <<42896, 42954>>, <<42960, 42961>>, <<42963, 42963>>,
    <<42965, 42969>>, <<42997, 42998>>, <<43002, 43002>>, <<43824, 43866>>,
    <<43872, 43880>>, <<43888, 43967>>, <<64256, 64262>>, <<64275, 64279>>,
    <<65313, 65338>>, <<65345, 65370>>, <<66560, 66639>>, <<66736, 66771>>,
    <<66776, 66811>>, <<66928, 66938>>, <<66940, 66954>>, <<66956, 66962>>,
    <<66964, 66965>>, <<66967, 66977>>, <<66979, 66993>>, <<66995, 67001>>,
    <<67003, 67004>>, <<68736, 68786>>, <<68800, 68850>>, <<71840, 71903>>,
    <<93760, 93823>>, <<119808, 119892>>, <<119894, 119964>>,
    <<119966, 119967>>, <<119970, 119970>>, <<119973, 119974>>,
    <<119977, 119980>>, <<119982, 119993>>, <<119995, 119995>>,
    <<119997, 120003>>, <<120005, 120069>>, <<120071, 120074>>,
    <<120077, 120084>>, <<120086, 120092>>, <<120094, 120121>>,
    <<120123, 120126>>, <<120128, 120132>>, <<120134, 120134>>,
    <<120138, 120144>>, <<120146, 120485>>, <<120488, 120512>>,
    <<120514, 120538>>, <<120540, 120570>>, <<120572, 120596>>,
    <<120598, 120628>>, <<120630, 120654>>, <<120656, 120686>>,
    <<120688, 120712>>, <<120714, 120744>>, <<120746, 120770>>,
    <<120772, 120779>>, <<122624, 122633>>, <<122635, 122654>>,
    <<125184, 125251>>, <<127280, 127305>>, <<127312, 127337>>,
    <<127344, 127369>>
  >>

CaseIgnorableRanges ==
  <<
    <<39, 39>>, <<46, 46>>, <<58, 58>>, <<94, 94>>, <<96, 96>>,
    <<168, 168>>, <<173, 173>>, <<175, 175>>, <<180, 180>>, <<183, 184>>,
    <<688, 879>>, <<884, 885>>, <<890, 890>>, <<900, 901>>, <<903, 903>>,
    <<1155, 1161>>, <<1369, 1369>>, <<1375, 1375>>, <<1425, 1469>>,
    <<1471, 1471>>, <<1473, 1474>>, <<1476, 1477>>, <<1479, 1479>>,
    <<1524, 1524>>, <<1536, 1541>>, <<1552, 1562>>, <<1564, 1564>>,
    <<1600, 1600>>, <<1611, 1631>>, <<1648, 1648>>, <<1750, 1757>>,
    <<1759, 1768>>, <<1770, 1773>>, <<1807, 1807>>, <<1809, 1809>>,
    <<1840, 1866>>, <<1958, 1968>>, <<2027, 2037>>, <<2042, 2042>>,
    <<2045, 2045>>, <<2070, 2093>>, <<2137, 2139>>, <<2184, 2184>>,
    <<2192, 2193>>, <<2200, 2207>>, <<2249, 2306>>, <<2362, 2362>>,
    <<2364, 2364>>, <<2369, 2376>>, <<2381, 2381>>, <<2385, 2391>>,
    <<2402, 2403>>, <<2417, 2417>>, <<2433, 2433>>, <<2492, 2492>>,
    <<2497, 2500>>, <<2509, 2509>>, <<2530, 2531>>, <<2558, 2558>>,
    <<2561, 2562>>, <<2620, 2620>>, <<2625, 2626>>, <<2631, 2632>>,
    <<2635, 2637>>, <<2641, 2641>>, <<2672, 2673>>, <<2677, 2677>>,
    <<2689, 2690>>, <<2748, 2748>>, <<2753, 2757>>, <<2759, 2760>>,
    <<2765, 2765>>, <<2786, 2787>>, <<2810, 2815>>, <<2817, 2817>>,
    <<2876, 2876>>, <<2879, 2879>>, <<2881, 2884>>, <<2893, 2893>>,
    <<2901, 2902>>, <<2914, 2915>>, <<2946, 2946>>, <<3008, 3008>>,
    <<3021, 3021>>, <<3072, 3072>>, <<3076, 3076>>, <<3132, 3132>>,
    <<3134, 3136>>, <<3142, 3144>>, <<3146, 3149>>, <<3157, 3158>>,
    <<3170, 3171>>, <<3201, 3201>>, <<3260, 3260>>, <<3263, 3263>>,
    <<3270, 3270>>, <<3276, 3277>>, <<3298, 3299>>, <<3328, 3329>>,
    <<3387, 3388>>, <<3393, 3396>>, <<3405, 3405>>, <<3426, 3427>>,
    <<3457, 3457>>, <<3530, 3530>>, <<3538, 3540>>, <<3542, 3542>>,
    <<3633, 3633>>, <<3636, 3642>>, <<3654, 3662>>, <<3761, 3761>>,
    <<3764, 3772>>, <<3782, 3782>>, <<3784, 3789>>, <<3864, 3865>>,
    <<3893, 3893>>, <<3895, 3895>>, <<3897, 3897>>, <<3953, 3966>>,
    <<3968, 3972>>, <<3974, 3975>>, <<3981, 3991>>, <<3993, 4028>>,
    <<4038, 4038>>, <<4141, 4144>>, <<4146, 4151>>, <<4153, 4154>>,
    <<4157, 4158>>, <<4184, 4185>>, <<4190, 4192>>, <<4209, 4212>>,
    <<4226, 4226>>, <<4229, 4230>>, <<4237, 4237>>, <<4253, 4253>>,
    <<4348, 4348>>, <<4957, 4959>>, <<5906, 5908>>, <<5938, 5939>>,
    <<5970, 5971>>, <<6002, 6003>>, <<6068, 6069>>, <<6071, 6077>>,
    <<6086, 6086>>, <<6089, 6099>>, <<6103, 6103>>, <<6109, 6109>>,
    <<6155, 6159>>, <<6211, 6211>>, <<6277, 6278>>, <<6313, 6313>>,
    <<6432, 6434>>, <<6439, 6440>>, <<6450, 6450>>, <<6457, 6459>>,
    <<6679, 6680>>, <<6683, 6683>>, <<6742, 6742>>, <<6744, 6750>>,
    <<6752, 6752>>, <<6754, 6754>>, <<6757, 6764>>, <<6771, 6780>>,
    <<6783, 6783>>, <<6823, 6823>>, <<6832, 6862>>, <<6912, 6915>>,
    <<6964, 6964>>, <<6966, 6970>>, <<6972, 6972>>, <<6978, 6978>>,
    <<7019, 7027>>, <<7040, 7041>>, <<7074, 7077>>, <<7080, 7081>>,
    <<7083, 7085>>, <<7142, 7142>>, <<7144, 7145>>, <<7149, 7149>>,
    <<7151, 7153>>, <<7212, 7219>>, <<7222, 7223>>, <<7288, 7293>>,
    <<7376, 7378>>, <<7380, 7392>>, <<7394, 7400>>, <<7405, 7405>>,
    <<7412, 7412>>, <<7416, 7417>>, <<7468, 7530>>, <<7544, 7544>>,
    <<7579, 7679>>, <<8125, 8125>>, <<8127, 8129>>, <<8141, 8143>>,
    <<8157, 8159>>, <<8173, 8175>>, <<8189, 8190>>, <<8203, 8207>>,
    <<8216, 8217>>, <<8228, 8228>>, <<8231, 8231>>, <<8234, 8238>>,
    <<8288, 8292>>, <<8294, 8303>>, <<8305, 8305>>, <<8319, 8319>>,
    <<8336, 8348>>, <<8400, 8432>>, <<11388, 11389>>, <<11503, 11505>>,
    <<11631, 11631>>, <<11647, 11647>>, <<11744, 11775>>, <<11823, 11823>>,
    <<12293, 12293>>, <<12330, 12333>>, <<12337, 12341>>, <<12347, 12347>>,
    <<12441, 12446>>, <<12540, 12542>>, <<40981, 40981>>, <<42232, 42237>>,
    <<42508, 42508>>, <<42607, 42610>>, <<42612, 42621>>, <<42623, 42623>>,
    <<42652, 42655>>, <<42736, 42737>>, <<42752, 42785>>, <<42864, 42864>>,
    <<42888, 42890>>, <<42994, 42996>>, <<43000, 43001>>, <<43010, 43010>>,
    <<43014, 43014>>, <<43019, 43019>>, <<43045, 43046>>, <<43052, 43052>>,
    <<43204, 43205>>, <<43232, 43249>>, <<43263, 43263>>, <<43302, 43309>>,
    <<43335, 43345>>, <<43392, 43394>>, <<43443, 43443>>, <<43446, 43449>>,
    <<43452, 43453>>, <<43471, 43471>>, <<43493, 43494>>, <<43561, 43566>>,
    <<43569, 43570>>, <<43573, 43574>>, <<43587, 43587>>, <<43596, 43596>>,
    <<43632, 43632>>, <<43644, 43644>>, <<43696, 43696>>, <<43698, 43700>>,
    <<43703, 43704>>, <<43710, 43711>>, <<43713, 43713>>, <<43741, 43741>>,
    <<43756, 43757>>, <<43763, 43764>>, <<43766, 43766>>, <<43867, 43871>>,
    <<43881, 43883>>, <<44005, 44005>>, <<44008, 44008>>, <<44013, 44013>>,
    <<64286, 64286>>, <<64434, 64450>>, <<65024, 65039>>, <<65043, 65043>>,
    <<65056, 65071>>, <<65106, 65106>>, <<65109, 65109>>, <<65279, 65279>>,
    <<65287, 65287>>, <<65294, 65294>>, <<65306, 65306>>, <<65342, 65342>>,
    <<65344, 65344>>, <<65392, 65392>>, <<65438, 65439>>, <<65507, 65507>>,
    <<65529, 65531>>, <<66045, 66045>>, <<66272, 66272>>, <<66422, 66426>>,
    <<67456, 67461>>, <<67463, 67504>>, <<67506, 67514>>, <<68097, 68099>>,
    <<68101, 68102>>, <<68108, 68111>>, <<68152, 68154>>, <<68159, 68159>>,
    <<68325, 68326>>, <<68900, 68903>>, <<69291, 69292>>, <<69446, 69456>>,
    <<69506, 69509>>, <<69633, 69633>>, <<69688, 69702>>, <<69744, 69744>>,
    <<69747, 69748>>, <<69759, 69761>>, <<69811, 69814>>, <<69817, 69818>>,
    <<69821, 69821>>, <<69826, 69826>>, <<69837, 69837>>, <<69888, 69890>>,
    <<69927, 69931>>, <<69933, 69940>>, <<70003, 70003>>, <<70016, 70017>>,
    <<70070, 70078>>, <<70089, 70092>>, <<70095, 70095>>, <<70191, 70193>>,
    <<70196, 70196>>, <<70198, 70199>>, <<70206, 70206>>, <<70367, 70367>>,
    <<70371, 70378>>, <<70400, 70401>>, <<70459, 70460>>, <<70464, 70464>>,
    <<70502, 70508>>, <<70512, 70516>>, <<70712, 70719>>, <<70722, 70724>>,
    <<70726, 70726>>, <<70750, 70750>>, <<70835, 70840>>, <<70842, 70842>>,
    <<70847, 70848>>, <<70850, 70851>>, <<71090, 71093>>, <<71100, 71101>>,
    <<71103, 71104>>, <<71132, 71133>>, <<71219, 71226>>, <<71229, 71229>>,
    <<71231, 71232>>, <<71339, 71339>>, <<71341, 71341>>, <<71344, 71349>>,
    <<71351, 71351>>, <<71453, 71455>>, <<71458, 71461>>, <<71463, 71467>>,
    <<71727, 71735>>, <<71737, 71738>>, <<71995, 71996>>, <<71998, 71998>>,
    <<72003, 72003>>, <<72148, 72151>>, <<72154, 72155>>, <<72160, 72160>>,
    <<72193, 72202>>, <<72243, 72248>>, <<72251, 72254>>, <<72263, 72263>>,
    <<72273, 72278>>, <<72281, 72283>>, <<72330, 72342>>, <<72344, 72345>>,
    <<72752, 72758>>, <<72760, 72765>>, <<72767, 72767>>, <<72850, 72871>>,
    <<72874, 72880>>, <<72882, 72883>>, <<72885, 72886>>, <<73009, 73014>>,
    <<73018, 73018>>, <<73020, 73021>>, <<73023, 73029>>, <<73031, 73031>>,
    <<73104, 73105>>, <<73109, 73109>>, <<73111, 73111>>, <<73459, 73460>>,
    <<78896, 78904>>, <<92912, 92916>>, <<92976, 92982>>, <<92992, 92995>>,
    <<94031, 94031>>, <<94095, 94111>>, <<94176, 94177>>, <<94179, 94180>>,
    <<110576, 110579>>, <<110581, 110587>>, <<110589, 110590>>,
    <<113821, 113822>>, <<113824, 113827>>, <<118528, 118573>>,
    <<118576, 118598>>, <<119143, 119145>>, <<119155, 119170>>,
    <<119173, 119179>>, <<119210, 119213>>, <<119362, 119364>>,
    <<121344, 121398>>, <<121403, 121452>>, <<121461, 121461>>,
    <<121476, 121476>>, <<121499, 121503>>, <<121505, 121519>>,
    <<122880, 122886>>, <<122888, 122904>>, <<122907, 122913>>,
    <<122915, 122916>>, <<122918, 122922>>, <<123184, 123197>>,
    <<123566, 123566>>, <<123628, 123631>>, <<125136, 125142>>,
    <<125252, 125259>>, <<127995, 127999>>, <<917505, 917505>>,
    <<917536, 917631>>, <<917760, 917999>>
  >>

(***************************************************************************)
(* Text helpers                                                            *)
(***************************************************************************)
InRanges(c, R) == \E i \in 1..Len(R) : R[i][1] <= c /\ c <= R[i][2]

\* the characters "0".."9"
AsciiDigits == 48..57

\* \d
IsDecimal(c) == c \in AsciiDigits \/ (c > 127 /\ InRanges(c, DecimalRanges))

\* \w
IsWord(c) ==
    IF c < 128 THEN c \in 48..57 \cup 65..90 \cup 97..122 \cup {95}
    ELSE InRanges(c, WordRanges)

\* the characters str.strip() removes and \s matches: those for which
\* str.isspace() holds
Whitespace ==
    {9, 10, 11, 12, 13, 28, 29, 30, 31, 32, 133, 160, 5760, 8192, 8193, 8194,
     8195, 8196, 8197, 8198, 8199, 8200, 8201, 8202, 8232, 8233, 8239, 8287,
     12288}

RECURSIVE LStrip(_, _)
LStrip(s, chars) ==
    IF s # <<>> /\ Head(s) \in chars THEN LStrip(Tail(s), chars) ELSE s

RECURSIVE RStrip(_, _)
RStrip(s, chars) ==
    IF s # <<>> /\ s[Len(s)] \in chars
    THEN RStrip(SubSeq(s, 1, Len(s) - 1), chars)
    ELSE s

\* str.strip(chars)
Strip(s, chars) == RStrip(LStrip(s, chars), chars)

\* s[i:].startswith(t), i counted from 1
StartsWithAt(s, i, t) ==
    i + Len(t) - 1 <= Len(s) /\ \A k \in 1..Len(t) : s[i + k - 1] = t[k]

\* str.lower() of one character other than the capital sigma and the
\* dotted capital I
LowerChar(c) ==
    LET Shifted(runs) ==
            LET hit == {i \in 1..Len(runs) :
                           /\ runs[i][1] <= c
                           /\ c <= runs[i][2]
                           /\ (c - runs[i][1]) % runs[i][3] = 0}
            IN  IF hit = {} THEN c ELSE c + runs[CHOOSE i \in hit : TRUE][4]
    IN  IF c < 128 THEN (IF c \in 65..90 THEN c + 32 ELSE c)
        ELSE Shifted(LowerRuns)

\* the capital sigma at s[i] ends a word: a cased character comes before it
\* and none after it, case-ignorable characters skipped
FinalSigma(s, i) ==
    LET EndsWord(ignorable, cased) ==
            LET before == {j \in 1..(i - 1) : ~ InRanges(s[j], ignorable)}
                after == {j \in (i + 1)..Len(s) : ~ InRanges(s[j], ignorable)}
            IN  /\ before # {}
                /\ InRanges(s[CHOOSE j \in before : \A k \in before : k <= j],
                            cased)
                /\ \/ after = {}
                   \/ ~ InRanges(s[CHOOSE j \in after : \A k \in after : j <= k],
                                 cased)
    IN  EndsWord(CaseIgnorableRanges, CasedRanges)

\* str.lower()
RECURSIVE LowerFrom(_, _)
LowerFrom(s, i) ==
    IF i > Len(s) THEN <<>>
    ELSE (IF s[i] = 931 THEN <<IF FinalSigma(s, i) THEN 962 ELSE 963>>
          ELSE IF s[i] = 304 THEN <<105, 775>>
          ELSE <<LowerChar(s[i])>>)
         \o LowerFrom(s, i + 1)

Lower(s) == LowerFrom(s, 1)

\* the lower-case letter a character matches under re.IGNORECASE
FoldCase(c) ==
    IF c \in 65..90 THEN c + 32
    ELSE IF c \in {304, 305} THEN 105
    ELSE IF c = 383 THEN 115
    ELSE IF c = 8490 THEN 107
    ELSE c

\* the index after the longest run of "0".."9" that starts at s[i]
RECURSIVE DigitsEnd(_, _)
DigitsEnd(s, i) ==
    IF i <= Len(s) /\ s[i] \in AsciiDigits THEN DigitsEnd(s, i + 1) ELSE i

\* the index after the whitespace that starts at s[i]
RECURSIVE SpaceEnd(_, _)
SpaceEnd(s, i) ==
    IF i <= Len(s) /\ s[i] \in Whitespace THEN SpaceEnd(s, i + 1) ELSE i

\* re.search('\d+\.\d+\.\d+.*', s): somewhere in s, digits "." digits "." digits
ReSearchVersion(s) ==
    \E p \in 1..Len(s) : \E q \in 1..Len(s) :
        /\ p < q
        /\ s[p] = 46
        /\ s[q] = 46
        /\ p + 1 <= q - 1
        /\ \A k \in (p + 1)..(q - 1) : IsDecimal(s[k])
        /\ p > 1
        /\ IsDecimal(s[p - 1])
        /\ q < Len(s)
        /\ IsDecimal(s[q + 1])

(***************************************************************************)
(* _PDFBoxVersionsParser                                                   *)
(* A page is the sequence of its start tags, each [tag, attrs] with attrs  *)
(* a sequence of <<name, value>> pairs, as HTMLParser hands them over.     *)
(***************************************************************************)
RECURSIVE HandleAttrs(_, _)
HandleAttrs(result, attrs) ==
    IF attrs = <<>> THEN result
    ELSE LET a == Head(attrs)
             s == Strip(a[2], {47})
             r == IF a[1] = "href" /\ ReSearchVersion(s)
                  THEN Append(result, s)
                  ELSE result
         IN  HandleAttrs(r, Tail(attrs))

\* a parser that does not look at the tag's name
handle_starttag(result, tag, attrs) ==
    IF tag = "a" THEN HandleAttrs(result, attrs) ELSE result

RECURSIVE FeedTags(_, _)
FeedTags(result, tags) ==
    IF tags = <<>> THEN result
    ELSE FeedTags(handle_starttag(result, Head(tags).tag, Head(tags).attrs),
                  Tail(tags))

\* feed(data): self.result = [] and one handle_starttag per start tag
feed(page) == FeedTags(<<>>, page)

(***************************************************************************)
(* pkg_resources.parse_version (setuptools 65, packaging 21.3): a          *)
(* packaging Version when the text has the PEP 440 form, a LegacyVersion   *)
(* otherwise.  What sorted() uses of either is its _key and "<" on keys.   *)
(* A number is kept as its decimal digits without leading zeros (zero is   *)
(* the empty sequence), so that it has no upper limit.                     *)
(***************************************************************************)
\* int() of a run of "0".."9"
Numeral(ds) == LStrip(ds, {48})

\* Python's tuple < tuple on sequences of integers, str < str on texts
RECURSIVE TupleLess(_, _)
TupleLess(a, b) ==
    IF a = <<>> THEN b # <<>>
    ELSE IF b = <<>> THEN FALSE
    ELSE IF a[1] # b[1] THEN a[1] < b[1]
    ELSE TupleLess(Tail(a), Tail(b))

\* int < int on numerals
NumLess(a, b) == Len(a) < Len(b) \/ (Len(a) = Len(b) /\ TupleLess(a, b))

\* the optional separator [-_\.]? at s[i]: the indexes the match may go on
\* from, the one after the separator first
SepOpts(s, i) ==
    IF i <= Len(s) /\ s[i] \in {45, 95, 46} THEN <<i + 1, i>> ELSE <<i>>

\* the word w at s[i], letters compared as re.IGNORECASE does
MatchesWord(s, i, w) ==
    /\ i + Len(w) - 1 <= Len(s)
    /\ \A k \in 1..Len(w) : FoldCase(s[i + k - 1]) = w[k]

\* [0-9]* at s[j] after the word l: the number when there is one, then none
NumberOpts(s, l, j) ==
    (IF DigitsEnd(s, j) > j
     THEN <<[next |-> DigitsEnd(s, j), l |-> l,
             n |-> SubSeq(s, j, DigitsEnd(s, j) - 1), hasN |-> TRUE]>>
     ELSE <<>>)
    \o <<[next |-> j, l |-> l, n |-> <<>>, hasN |-> FALSE]>>

\* [-_\.]? [0-9]* after the word l, the separator tried at each of `starts`
RECURSIVE AfterWord(_, _, _)
AfterWord(s, l, starts) ==
    IF starts = <<>> THEN <<>>
    ELSE NumberOpts(s, l, Head(starts)) \o AfterWord(s, l, Tail(starts))

\* the words of the alternation that match at s[from], in its order, each
\* with what may follow it
RECURSIVE WordsFrom(_, _, _)
WordsFrom(s, from, words) ==
    IF words = <<>> THEN <<>>
    ELSE (IF MatchesWord(s, from, Head(words))
          THEN AfterWord(s, SubSeq(s, from, from + Len(Head(words)) - 1),
                         SepOpts(s, from + Len(Head(words))))
          ELSE <<>>)
         \o WordsFrom(s, from, Tail(words))

\* [-_\.]? word [-_\.]? [0-9]*: the ways it matches with the word at one of
\* `starts`, in the order a backtracking match tries them
RECURSIVE LetterSegment(_, _, _)
LetterSegment(s, starts, words) ==
    IF starts = <<>> THEN <<>>
    ELSE WordsFrom(s, Head(starts), words)
         \o LetterSegment(s, Tail(starts), words)

\* [a-z0-9] under re.IGNORECASE
IsLocalChar(c) == FoldCase(c) \in 97..122 \/ c \in AsciiDigits

\* the index after [a-z0-9]+(?:[-_\.][a-z0-9]+)* at s[i] (i when there is none)
RECURSIVE LocalEnd(_, _)
LocalEnd(s, i) ==
    IF i <= Len(s) /\ IsLocalChar(s[i]) THEN LocalEnd(s, i + 1)
    ELSE IF /\ i > 1
            /\ i < Len(s)
            /\ IsLocalChar(s[i - 1])
            /\ s[i] \in {45, 95, 46}
            /\ IsLocalChar(s[i + 1])
         THEN LocalEnd(s, i + 1)
         ELSE i

\* the local segment "+...", or none: the index after it and its text
LocalOpts(s, i) ==
    (IF i < Len(s) /\ s[i] = 43 /\ IsLocalChar(s[i + 1])
     THEN <<[next |-> LocalEnd(s, i + 1),
             text |-> SubSeq(s, i + 1, LocalEnd(s, i + 1) - 1), has |-> TRUE]>>
     ELSE <<>>)
    \o <<[next |-> i, text |-> <<>>, has |-> FALSE]>>

\* the index after [0-9]+(?:\.[0-9]+)* at s[i] (i when there is none)
RECURSIVE ReleaseEnd(_, _)
ReleaseEnd(s, i) ==
    LET e == DigitsEnd(s, i)
    IN  IF e = i THEN i
        ELSE IF e < Len(s) /\ s[e] = 46 /\ s[e + 1] \in AsciiDigits
             THEN ReleaseEnd(s, e + 1)
             ELSE e

\* str.split(sep) of a text with no empty piece at either end
RECURSIVE Split(_, _)
Split(s, seps) ==
    IF \A i \in 1..Len(s) : s[i] \notin seps THEN <<s>>
    ELSE LET p == CHOOSE i \in 1..Len(s) :
                      s[i] \in seps /\ \A j \in 1..(i - 1) : s[j] \notin seps
         IN  <<SubSeq(s, 1, p - 1)>> \o Split(SubSeq(s, p + 1, Len(s)), seps)

\* where the version begins: after ^\s*v?(?:([0-9]+)!)?
VersionStart(s) ==
    LET Epoch(j, e) ==
            IF e > j /\ e <= Len(s) /\ s[e] = 33
            THEN [epoch |-> SubSeq(s, j, e - 1), release |-> e + 1]
            ELSE [epoch |-> <<>>, release |-> j]
        AfterV(j) == Epoch(j, DigitsEnd(s, j))
        AfterSpace(i) ==
            AfterV(IF i <= Len(s) /\ FoldCase(s[i]) = 118 THEN i + 1 ELSE i)
    IN  AfterSpace(SpaceEnd(s, 1))

\* the words of the pre, post and dev segments:
\* (a|b|c|rc|alpha|beta|pre|preview), (post|rev|r), (dev)
SegmentWords ==
    << << <<97>>, <<98>>, <<99>>, <<114, 99>>, <<97, 108, 112, 104, 97>>,
          <<98, 101, 116, 97>>, <<112, 114, 101>>,
          <<112, 114, 101, 118, 105, 101, 119>> >>,
       << <<112, 111, 115, 116>>, <<114, 101, 118>>, <<114>> >>,
       << <<100, 101, 118>> >> >>

\* the ways segment k matches at s[i], in the order a backtracking match
\* tries them, the last being that the segment is absent: 1 pre; 2 post,
\* which is also "-" and a number; 3 dev; 4 local, "+" and its text
SegmentOpts(s, k, i) ==
    IF k = 4 THEN LocalOpts(s, i)
    ELSE (IF k = 2 /\ i <= Len(s) /\ s[i] = 45 /\ DigitsEnd(s, i + 1) > i + 1
          THEN <<[next |-> DigitsEnd(s, i + 1), l |-> <<>>,
                  n |-> SubSeq(s, i + 1, DigitsEnd(s, i + 1) - 1),
                  hasN |-> TRUE]>>
          ELSE <<>>)
         \o LetterSegment(s, SepOpts(s, i), SegmentWords[k])
         \o <<[next |-> i, l |-> <<>>, n |-> <<>>, hasN |-> FALSE]>>

\* the first of the ways opts of segment k after which the rest of the
\* pattern matches up to \s*$, with the segments matched: <<>> when no way
\* does, as a backtracking match finds it
RECURSIVE TryOpts(_, _, _, _)
TryOpts(s, k, opts, matched) ==
    LET OrNext(r) == IF r # <<>> THEN r ELSE TryOpts(s, k, Tail(opts), matched)
        Rest(o) ==
            IF k = 4
            THEN IF SpaceEnd(s, o.next) = Len(s) + 1
                 THEN <<Append(matched, o)>>
                 ELSE <<>>
            ELSE TryOpts(s, k + 1, SegmentOpts(s, k + 1, o.next),
                         Append(matched, o))
    IN  IF opts = <<>> THEN <<>> ELSE OrNext(Rest(Head(opts)))

\* Version._regex.search(version): <<>> for None, or the one match with its
\* groups
VersionMatches(s) ==
    LET Groups(start, r, m) ==
            IF m = <<>> THEN <<>>
            ELSE <<[epoch |-> start.epoch,
                    release |-> SubSeq(s, start.release, r - 1),
                    pre |-> m[1][1], post |-> m[1][2], dev |-> m[1][3],
                    local |-> m[1][4]]>>
        Segments(start, r) ==
            Groups(start, r,
                   IF r = start.release THEN <<>>
                   ELSE TryOpts(s, 1, SegmentOpts(s, 1, r), <<>>))
        From(start) == Segments(start, ReleaseEnd(s, start.release))
    IN  From(VersionStart(s))

\* _parse_letter_version: None (has = FALSE), or the letter and the number
parse_letter_version(seg) ==
    LET Normal(letter) ==
            IF letter = <<97, 108, 112, 104, 97>> THEN <<97>>
            ELSE IF letter = <<98, 101, 116, 97>> THEN <<98>>
            ELSE IF letter \in {<<99>>, <<112, 114, 101>>,
                                <<112, 114, 101, 118, 105, 101, 119>>}
                 THEN <<114, 99>>
            ELSE IF letter \in {<<114, 101, 118>>, <<114>>}
                 THEN <<112, 111, 115, 116>>
            ELSE letter
    IN  IF seg.l # <<>>
        THEN [has |-> TRUE, l |-> Normal(Lower(seg.l)), n |-> Numeral(seg.n)]
        ELSE IF seg.hasN
             THEN [has |-> TRUE, l |-> <<112, 111, 115, 116>>,
                   n |-> Numeral(seg.n)]
             ELSE [has |-> FALSE, l |-> <<>>, n |-> <<>>]

\* _parse_local_version: the parts between separators, a number as
\* [int |-> TRUE, v |-> numeral], a word as [int |-> FALSE, v |-> text]
RECURSIVE LocalParts(_)
LocalParts(parts) ==
    IF parts = <<>> THEN <<>>
    ELSE <<IF \A i \in 1..Len(Head(parts)) : Head(parts)[i] \in AsciiDigits
           THEN [int |-> TRUE, v |-> Numeral(Head(parts))]
           ELSE [int |-> FALSE, v |-> Lower(Head(parts))]>>
         \o LocalParts(Tail(parts))

parse_local_version(text) == LocalParts(Split(text, {46, 95, 45}))

\* _cmpkey.  rank is -1 for NegativeInfinity, 1 for Infinity, 0 for a value.
cmpkey(epoch, release, pre, post, dev, hasLocal, local) ==
    [legacy |-> FALSE,
     epoch |-> epoch,
     release |-> RStrip(release, {<<>>}),
     pre |-> IF ~ pre.has /\ ~ post.has /\ dev.has
             THEN [rank |-> -1, l |-> <<>>, n |-> <<>>]
             ELSE IF ~ pre.has THEN [rank |-> 1, l |-> <<>>, n |-> <<>>]
             ELSE [rank |-> 0, l |-> pre.l, n |-> pre.n],
     post |-> IF ~ post.has THEN [rank |-> -1, l |-> <<>>, n |-> <<>>]
              ELSE [rank |-> 0, l |-> post.l, n |-> post.n],
     dev |-> IF ~ dev.has THEN [rank |-> 1, l |-> <<>>, n |-> <<>>]
             ELSE [rank |-> 0, l |-> dev.l, n |-> dev.n],
     hasLocal |-> hasLocal,
     local |-> local]

\* tuple(int(i) for i in release.split("."))
RECURSIVE Numerals(_)
Numerals(digits) ==
    IF digits = <<>> THEN <<>>
    ELSE <<Numeral(Head(digits))>> \o Numerals(Tail(digits))

\* the pre, post and dev groups of a match, each through
\* _parse_letter_version
RECURSIVE LetterVersions(_)
LetterVersions(segs) ==
    IF segs = <<>> THEN <<>>
    ELSE <<parse_letter_version(Head(segs))>> \o LetterVersions(Tail(segs))

\* Version(version)._key, from the match m of Version._regex
VersionKey(m) ==
    LET Key(parsed) ==
            cmpkey(Numeral(m.epoch),
                   Numerals(Split(m.release, {46})),
                   parsed[1], parsed[2], parsed[3],
                   m.local.has,
                   IF m.local.has THEN parse_local_version(m.local.text)
                   ELSE <<>>)
    IN  Key(LetterVersions(<<m.pre, m.post, m.dev>>))

\* the class of a character for _legacy_version_component_re:
\* \d, [a-z], ".", "-", or none of them
LegacyClass(c) ==
    IF IsDecimal(c) THEN "d"
    ELSE IF c \in 97..122 THEN "a"
    ELSE IF c = 46 THEN "."
    ELSE IF c = 45 THEN "-"
    ELSE "x"

\* the index after the piece of _legacy_version_component_re.split(s) that
\* starts at s[i]: a run of digits, a run of letters, one "." or "-", or the
\* text up to the next of these
RECURSIVE LegacyPieceEnd(_, _)
LegacyPieceEnd(s, i) ==
    IF LegacyClass(s[i]) \in {".", "-"} THEN i + 1
    ELSE IF i < Len(s) /\ LegacyClass(s[i + 1]) = LegacyClass(s[i])
         THEN LegacyPieceEnd(s, i + 1)
         ELSE i + 1

\* the non-empty pieces of _legacy_version_component_re.split(s) from s[i] on
RECURSIVE LegacyPieces(_, _)
LegacyPieces(s, i) ==
    IF i > Len(s) THEN <<>>
    ELSE <<SubSeq(s, i, LegacyPieceEnd(s, i) - 1)>>
         \o LegacyPieces(s, LegacyPieceEnd(s, i))

\* _legacy_version_replacement_map.get(part, part)
LegacyReplace(part) ==
    IF part \in {<<112, 114, 101>>, <<112, 114, 101, 118, 105, 101, 119>>,
                 <<114, 99>>}
    THEN <<99>>
    ELSE IF part = <<45>> THEN <<102, 105, 110, 97, 108, 45>>
    ELSE IF part = <<100, 101, 118>> THEN <<64>>
    ELSE part

\* "*final"
StarFinal == <<42, 102, 105, 110, 97, 108>>

\* _parse_version_parts
parse_version_parts(s) ==
    LET pieces == LegacyPieces(s, 1)
        Kept(piece) == piece # <<46>>
        kept == SelectSeq(pieces, Kept)
    IN  [k \in 1..Len(kept) |->
            LET part == LegacyReplace(kept[k])
            IN  IF part[1] \in AsciiDigits
                THEN [z \in 1..(8 - Len(part)) |-> 48] \o part
                ELSE <<42>> \o part]
        \o <<StarFinal>>

\* the loop of _legacy_cmpkey over the parts that remain
RECURSIVE LegacyParts(_, _)
LegacyParts(parts, rest) ==
    IF rest = <<>> THEN parts
    ELSE LET part == Head(rest)
             a == IF part[1] = 42 /\ TupleLess(part, StarFinal)
                  THEN RStrip(parts, {StarFinal \o <<45>>})
                  ELSE parts
             b == IF part[1] = 42
                  THEN RStrip(a, {<<48, 48, 48, 48, 48, 48, 48, 48>>})
                  ELSE a
         IN  LegacyParts(Append(b, part), Tail(rest))

\* _legacy_cmpkey: LegacyVersion(version)._key
legacy_cmpkey(version) ==
    [legacy |-> TRUE,
     parts |-> LegacyParts(<<>>, parse_version_parts(Lower(version)))]

\* a sort key that is the text itself
StringKey(v) == [legacy |-> TRUE, parts |-> <<v>>]

\* pkg_resources.parse_version(v), as the key sorted() compares: Version(v),
\* or LegacyVersion(v) when Version raises InvalidVersion
parse_version(v) ==
    LET Key(m) == IF m # <<>> THEN VersionKey(m[1]) ELSE legacy_cmpkey(v)
    IN  Key(VersionMatches(v))

\* tuple < tuple on sequences of texts
RECURSIVE TextsLess(_, _)
TextsLess(a, b) ==
    IF a = <<>> THEN b # <<>>
    ELSE IF b = <<>> THEN FALSE
    ELSE IF a[1] # b[1] THEN TupleLess(a[1], b[1])
    ELSE TextsLess(Tail(a), Tail(b))

\* tuple < tuple on release tuples
RECURSIVE ReleaseLess(_, _)
ReleaseLess(a, b) ==
    IF a = <<>> THEN b # <<>>
    ELSE IF b = <<>> THEN FALSE
    ELSE IF a[1] # b[1] THEN NumLess(a[1], b[1])
    ELSE ReleaseLess(Tail(a), Tail(b))

\* "<" on the pre, post and dev entries of a key
SegmentLess(a, b) ==
    IF a.rank # b.rank THEN a.rank < b.rank
    ELSE IF a.rank # 0 THEN FALSE
    ELSE IF a.l # b.l THEN TupleLess(a.l, b.l)
    ELSE NumLess(a.n, b.n)

\* "<" on local versions, part by part: a word is less than a number
RECURSIVE LocalLess(_, _)
LocalLess(a, b) ==
    IF a = <<>> THEN b # <<>>
    ELSE IF b = <<>> THEN FALSE
    ELSE IF a[1] # b[1]
         THEN IF a[1].int # b[1].int THEN b[1].int
              ELSE IF a[1].int THEN NumLess(a[1].v, b[1].v)
              ELSE TupleLess(a[1].v, b[1].v)
    ELSE LocalLess(Tail(a), Tail(b))

\* _BaseVersion.__lt__: self._key < other._key.  A legacy key begins with
\* the epoch -1 and so is less than the key of any Version.
KeyLess(a, b) ==
    IF a.legacy /\ b.legacy THEN TextsLess(a.parts, b.parts)
    ELSE IF a.legacy \/ b.legacy THEN a.legacy
    ELSE IF a.epoch # b.epoch THEN NumLess(a.epoch, b.epoch)
    ELSE IF a.release # b.release THEN ReleaseLess(a.release, b.release)
    ELSE IF a.pre # b.pre THEN SegmentLess(a.pre, b.pre)
    ELSE IF a.post # b.post THEN SegmentLess(a.post, b.post)
    ELSE IF a.dev # b.dev THEN SegmentLess(a.dev, b.dev)
    ELSE IF a.hasLocal # b.hasLocal THEN b.hasLocal
    ELSE LocalLess(a.local, b.local)

\* sorted() is stable: x goes after every element whose key is not greater
RECURSIVE InsertPair(_, _)
InsertPair(s, x) ==
    IF s = <<>> THEN <<x>>
    ELSE IF KeyLess(x[1], Head(s)[1]) THEN <<x>> \o s
    ELSE <<Head(s)>> \o InsertPair(Tail(s), x)

\* sorted(items, key=...) on the <<key, item>> pairs of the items: the pairs
\* in the order of their keys
RECURSIVE sorted(_)
sorted(pairs) ==
    IF pairs = <<>> THEN <<>>
    ELSE InsertPair(sorted(SubSeq(pairs, 1, Len(pairs) - 1)), pairs[Len(pairs)])

(***************************************************************************)
(* URLs and file names                                                     *)
(***************************************************************************)
\* 'https://archive.apache.org/dist/pdfbox/'
pdfbox_archive_url ==
    <<104, 116, 116, 112, 115, 58, 47, 47, 97, 114, 99, 104, 105, 118, 101,
        46, 97, 112, 97, 99, 104, 101, 46, 111, 114, 103, 47, 100, 105, 115,
        116, 47, 112, 100, 102, 98, 111, 120, 47>>

\* 'pdfbox-app-' and '.jar'
PdfboxApp == <<112, 100, 102, 98, 111, 120, 45, 97, 112, 112, 45>>
DotJar == <<46, 106, 97, 114>>

\* sorted(p.result, key=parse_version)[-1] raises IndexError on []
IndexErrorOnEmpty(result) == Len(result) = 0

IndexError == [raises |-> "IndexError"]

\* seq[-1] of a sequence that is not empty
Last(seq) == seq[Len(seq)]

\* the versions, each with its key parse_version
RECURSIVE KeyedVersions(_)
KeyedVersions(result) ==
    IF result = <<>> THEN <<>>
    ELSE << <<parse_version(Head(result)), Head(result)>> >>
         \o KeyedVersions(Tail(result))

\* latest_version
LatestVersion(result) ==
    IF IndexErrorOnEmpty(result) THEN IndexError
    ELSE Last(sorted(KeyedVersions(result)))[2]

\* pdfbox_archive_url + latest + '/pdfbox-app-' + latest + '.jar'
LatestUrl(result) ==
    LET Url(latest) ==
            pdfbox_archive_url \o latest \o <<47>> \o PdfboxApp \o latest
                \o DotJar
    IN  IF IndexErrorOnEmpty(result) THEN IndexError
        ELSE Url(LatestVersion(result))

\* pathlib.Path(pdfbox_url).name: the last component of the path, empty
\* components and "." components dropped; '' when there is none
PathName(u) ==
    LET IsPart(x) == x # <<>> /\ x # <<46>>
        parts == SelectSeq(Split(u, {47}), IsPart)
    IN  IF parts = <<>> THEN <<>> ELSE parts[Len(parts)]

\* cache_dir.glob('pdfbox-app-*.jar')
GlobMatches(name) ==
    /\ Len(name) >= Len(PdfboxApp) + Len(DotJar)
    /\ StartsWithAt(name, 1, PdfboxApp)
    /\ StartsWithAt(name, Len(name) - Len(DotJar) + 1, DotJar)

\* the index after the longest run of [\w\.\-] that starts at s[i]
RECURSIVE JarNameCharsEnd(_, _)
JarNameCharsEnd(s, i) ==
    IF i <= Len(s) /\ (IsWord(s[i]) \/ s[i] \in {46, 45})
    THEN JarNameCharsEnd(s, i + 1)
    ELSE i

\* the ends of the group ([\w\.\-]+) when 'pdfbox-app-' is matched at name[i]:
\* one character of the class or more, and '.jar' after them
GroupEnds(name, i) ==
    LET e == JarNameCharsEnd(name, i + Len(PdfboxApp))
    IN  {j \in (i + Len(PdfboxApp))..(e - 1) : StartsWithAt(name, j + 1, DotJar)}

\* the first index from i on at which the pattern matches, 0 when none does
RECURSIVE SearchFrom(_, _)
SearchFrom(name, i) ==
    IF i > Len(name) THEN 0
    ELSE IF StartsWithAt(name, i, PdfboxApp) /\ GroupEnds(name, i) # {} THEN i
    ELSE SearchFrom(name, i + 1)

\* re.search('pdfbox-app-([\w\.\-]+)\.jar', s.name): None (match = FALSE), or
\* the leftmost match with the longest group
ReSearchJarName(name) ==
    LET Group(i, ends) ==
            SubSeq(name, i + Len(PdfboxApp),
                   CHOOSE a \in ends : \A b \in ends : b <= a)
        MatchAt(i) ==
            IF i = 0 THEN [match |-> FALSE, group1 |-> <<>>]
            ELSE [match |-> TRUE, group1 |-> Group(i, GroupEnds(name, i))]
    IN  MatchAt(SearchFrom(name, 1))

\* what .group(1) raises when re.search finds nothing: None has no .group
AttributeError == [raises |-> "AttributeError"]

\* re.search('pdfbox-app-([\w\.\-]+)\.jar', s.name).group(1)
EmbeddedVersion(name) ==
    LET Group1(m) == IF m.match THEN m.group1 ELSE AttributeError
    IN  Group1(ReSearchJarName(name))

\* f(s) of the cache branch
CacheKey(name) ==
    LET Key(m) == IF m.match THEN parse_version(m.group1) ELSE AttributeError
    IN  Key(ReSearchJarName(name))

\* the files, each with its key f
RECURSIVE KeyedFiles(_)
KeyedFiles(file_list) ==
    IF file_list = <<>> THEN <<>>
    ELSE << <<CacheKey(Head(file_list)), Head(file_list)>> >>
         \o KeyedFiles(Tail(file_list))

\* sorted(file_list, key=f)[-1]; sorted calls f on every file first, and a
\* call that raises ends it
LatestCached(file_list) ==
    LET Pick(keyed) ==
            IF \E i \in 1..Len(keyed) : keyed[i][1] = AttributeError
            THEN AttributeError
            ELSE Last(sorted(keyed))[2]
    IN  Pick(KeyedFiles(file_list))

\* the orders in which glob may list a set of names
Orderings(S) ==
    {q \in [1..Cardinality(S) -> S] : \A n \in S : \E i \in DOMAIN q : q[i] = n}

(***************************************************************************)
(* SHA-512.  The digest is modelled by a collision-free stand-in on the    *)
(* bounded bodies: the hex rendering of the bytes.                         *)
(***************************************************************************)
\* the hex digit of each byte (the bounded bodies hold bytes below 16)
Sha512Hex(d) ==
    [i \in 1..Len(d) |-> IF d[i] < 10 THEN 48 + d[i] ELSE 87 + d[i]]

_verify_sha512(d, digest) == Sha512Hex(d) = digest

(***************************************************************************)
(* The world outside the program                                           *)
(***************************************************************************)
Anchor(h) == [tag |-> "a", attrs |-> << <<"href", h>> >>]

\* <a href="/dist/">
ParentLink == Anchor(<<47, 100, 105, 115, 116, 47>>)

\* an archive page listing 0.8.0-incubating/, 1.8.16/, 2.9.0/ and 2.9.0-RC1/
PageOld ==
    <<ParentLink,
      Anchor(<<48, 46, 56, 46, 48, 45, 105, 110, 99, 117, 98, 97, 116, 105,
             110, 103, 47>>),
      Anchor(<<49, 46, 56, 46, 49, 54, 47>>),
      Anchor(<<50, 46, 57, 46, 48, 47>>),
      Anchor(<<50, 46, 57, 46, 48, 45, 82, 67, 49, 47>>)>>

\* a later archive page: 2.9.0/ and 2.10.0/, and an icon
PageNew ==
    <<[tag |-> "img", attrs |-> << <<"src", <<105>> >> >>],
      ParentLink,
      Anchor(<<50, 46, 57, 46, 48, 47>>),
      Anchor(<<50, 46, 49, 48, 46, 48, 47>>)>>

\* a page that names the same release with one more number: 2.9.0/ and
\* 2.10.0.0/
PageAlt ==
    <<ParentLink,
      Anchor(<<50, 46, 57, 46, 48, 47>>),
      Anchor(<<50, 46, 49, 48, 46, 48, 46, 48, 47>>)>>

\* a page whose latest entry carries a build number: 2.10.0/ and 3.0.0+1/
PageBuild ==
    <<ParentLink,
      Anchor(<<50, 46, 49, 48, 46, 48, 47>>),
      Anchor(<<51, 46, 48, 46, 48, 43, 49, 47>>)>>

\* a page with no version link: a <link> is not an anchor, KEYS is no version
PageNone ==
    <<ParentLink,
      Anchor(<<75, 69, 89, 83>>),
      [tag |-> "link", attrs |-> << <<"href", <<50, 46, 48, 46, 48, 47>> >>
          >>]>>

Pages == {PageOld, PageNew, PageAlt, PageBuild, PageNone}

\* jar bodies a download may deliver: the published jar, and a damaged one
GenuineJar == <<1, 2>>
DamagedJar == <<1, 3>>
JarBodies == {GenuineJar, DamagedJar}

\* contents of the .sha512 file: the digest of the published jar and a line
\* end (LF or CRLF), or the digest of another file
ShaTexts ==
    {Sha512Hex(GenuineJar) \o <<10>>,
     Sha512Hex(GenuineJar) \o <<13, 10>>,
     <<32>> \o Sha512Hex(<<7, 7>>)}

\* the PDFBOX variable: unset, or one of '/opt/pdfbox-app.jar' and
\* '/nowhere/pdfbox-app.jar'; the first of the two exists
NoOverride == <<>>
Overrides ==
    {<<47, 111, 112, 116, 47, 112, 100, 102, 98, 111, 120, 45, 97, 112, 112,
       46, 106, 97, 114>>,
     <<47, 110, 111, 119, 104, 101, 114, 101, 47, 112, 100, 102, 98, 111,
       120, 45, 97, 112, 112, 46, 106, 97, 114>>}
ExistingPaths ==
    {<<47, 111, 112, 116, 47, 112, 100, 102, 98, 111, 120, 45, 97, 112, 112,
       46, 106, 97, 114>>}

\* pathlib.Path.exists() on an override path
AlwaysExists(path) == TRUE

PathExists(path) == path \in ExistingPaths

\* shutil.which('java'): a path, or None (<<>>)
JavaPaths == {<<"/usr/bin/java">>, <<>>}

(***************************************************************************)
(* PDFBox.__init__ and _get_pdfbox_path, one process per facade            *)
(***************************************************************************)
NoRet ==
    [kind |-> "none", path |-> <<>>, exc |-> "", msg |-> "", seen |-> {},
     verified |-> FALSE]

\* the construction ends with the exception exc(m)
Raise(exc, m) == [NoRet EXCEPT !.kind = "error", !.exc = exc, !.msg = m]

Finished == {"done", "failed"}

Names == DOMAIN cache

InitRes ==
    /\ pc = [p \in Procs |-> "idle"]
    /\ env = [p \in Procs |-> NoOverride]
    /\ cacheDir = FALSE
    /\ cache = << >>
    /\ listing = [p \in Procs |-> <<>>]
    /\ url = [p \in Procs |-> <<>>]
    /\ data = [p \in Procs |-> <<>>]
    /\ offset = [p \in Procs |-> 0]
    /\ ret = [p \in Procs |-> NoRet]
    /\ netCount = [p \in Procs |-> 0]
    /\ scans = [p \in Procs |-> 0]
    /\ built = [p \in Procs |-> 0]

\* the override branch: lines 78-82
UseOverride(p, e) ==
    /\ scans' = [scans EXCEPT ![p] = 0]
    /\ IF PathExists(e)
       THEN /\ pc' = [pc EXCEPT ![p] = "which"]
            /\ ret' = [ret EXCEPT ![p] = [NoRet EXCEPT !.kind = "override", !.path = e]]
       ELSE /\ pc' = [pc EXCEPT ![p] = "failed"]
            /\ ret' = [ret EXCEPT ![p] = Raise("RuntimeError", "pdfbox not found")]

\* the cache scan: lines 85-95.  glob lists the files it finds in an order
\* of its own; f raises AttributeError on a name its pattern does not match.
ScanCache(p) ==
    /\ scans' = [scans EXCEPT ![p] = 1]
    /\ LET Return(found, hit) ==
               IF hit = AttributeError
               THEN /\ pc' = [pc EXCEPT ![p] = "failed"]
                    /\ ret' = [ret EXCEPT ![p] =
                                 Raise("AttributeError",
                                       "'NoneType' object has no attribute 'group'")]
               ELSE /\ pc' = [pc EXCEPT ![p] = "which"]
                    /\ ret' = [ret EXCEPT ![p] =
                                 [NoRet EXCEPT !.kind = "cache", !.path = hit,
                                               !.seen = found,
                                               !.verified = cache[hit].verified]]
           Scan(found) ==
               IF found # {}
               THEN \E file_list \in Orderings(found) :
                       Return(found, LatestCached(file_list))
               ELSE /\ pc' = [pc EXCEPT ![p] = "get_latest"]
                    /\ ret' = [ret EXCEPT ![p] = NoRet]
       IN  Scan({n \in Names : GlobMatches(n)})

\* PDFBox() is called: _get_pdfbox_path up to the end of the cache scan
Construct(p) ==
    /\ pc[p] \in Finished \cup {"idle"}
    /\ built[p] < MaxConstructions
    /\ built' = [built EXCEPT ![p] = @ + 1]
    /\ \E e \in Overrides \cup {NoOverride} :
          /\ env' = [env EXCEPT ![p] = e]
          /\ IF e # NoOverride THEN UseOverride(p, e) ELSE ScanCache(p)
    /\ netCount' = [netCount EXCEPT ![p] = 0]
    /\ listing' = [listing EXCEPT ![p] = <<>>]
    /\ url' = [url EXCEPT ![p] = <<>>]
    /\ data' = [data EXCEPT ![p] = <<>>]
    /\ offset' = [offset EXCEPT ![p] = 0]
    /\ UNCHANGED <<cacheDir, cache>>
    /\ UNCHANGED <<cmdVars, selVars>>

\* _get_latest_pdfbox_url: lines 58-70.  urlopen raises URLError when the
\* request fails (line 59); a read that fails becomes a RuntimeError.
GetLatestPdfboxUrl(p) ==
    /\ pc[p] = "get_latest"
    /\ netCount' = [netCount EXCEPT ![p] = @ + 1]
    /\ \/ /\ pc' = [pc EXCEPT ![p] = "failed"]
          /\ \/ ret' = [ret EXCEPT ![p] = Raise("URLError", "urlopen error")]
             \/ ret' = [ret EXCEPT ![p] =
                          Raise("RuntimeError", "error retrieving archive")]
          /\ UNCHANGED <<listing, url>>
       \/ \E page \in Pages :
             LET Latest(result) ==
                     IF IndexErrorOnEmpty(result)
                     THEN /\ pc' = [pc EXCEPT ![p] = "failed"]
                          /\ ret' = [ret EXCEPT ![p] =
                                       Raise("IndexError",
                                             "list index out of range")]
                          /\ UNCHANGED url
                     ELSE /\ pc' = [pc EXCEPT ![p] = "fetch_jar"]
                          /\ url' = [url EXCEPT ![p] = LatestUrl(result)]
                          /\ UNCHANGED ret
             IN  /\ listing' = [listing EXCEPT ![p] = page]
                 /\ Latest(feed(page))
    /\ UNCHANGED <<env, cacheDir, cache, data, offset, scans, built>>
    /\ UNCHANGED <<cmdVars, selVars>>

\* urlopen(pdfbox_url) and r.read(): lines 100-104
DownloadJar(p) ==
    /\ pc[p] = "fetch_jar"
    /\ netCount' = [netCount EXCEPT ![p] = @ + 1]
    /\ \/ /\ pc' = [pc EXCEPT ![p] = "failed"]
          /\ \/ ret' = [ret EXCEPT ![p] = Raise("URLError", "urlopen error")]
             \/ ret' = [ret EXCEPT ![p] =
                          Raise("RuntimeError", "error retrieving jar")]
          /\ UNCHANGED data
       \/ \E body \in JarBodies :
             /\ data' = [data EXCEPT ![p] = body]
             /\ pc' = [pc EXCEPT ![p] = "check_dir"]
             /\ UNCHANGED ret
    /\ UNCHANGED <<env, cacheDir, cache, listing, url, offset, scans, built>>
    /\ UNCHANGED <<cmdVars, selVars>>

\* a file with `byte` written at position off (0-based); a gap reads as zeros
WriteAt(content, off, byte) ==
    [i \in 1..(IF off + 1 > Len(content) THEN off + 1 ELSE Len(content)) |->
        IF i = off + 1 THEN byte
        ELSE IF i <= Len(content) THEN content[i]
        ELSE 0]

\* if not os.path.exists(cache_dir.as_posix()): line 106
CheckCacheDir(p) ==
    /\ pc[p] = "check_dir"
    /\ pc' = [pc EXCEPT ![p] = IF cacheDir THEN "open" ELSE "mkdir"]
    /\ UNCHANGED <<env, cacheDir, cache, listing, url, data, offset, ret,
                   netCount, scans, built>>
    /\ UNCHANGED <<cmdVars, selVars>>

\* cache_dir.mkdir(parents=True): line 107.  It raises FileExistsError when
\* the directory has appeared since the check.
MakeCacheDir(p) ==
    /\ pc[p] = "mkdir"
    /\ IF cacheDir
       THEN /\ pc' = [pc EXCEPT ![p] = "failed"]
            /\ ret' = [ret EXCEPT ![p] = Raise("FileExistsError", "File exists")]
            /\ UNCHANGED cacheDir
       ELSE /\ pc' = [pc EXCEPT ![p] = "open"]
            /\ cacheDir' = TRUE
            /\ UNCHANGED ret
    /\ UNCHANGED <<env, cache, listing, url, data, offset, netCount, scans, built>>
    /\ UNCHANGED <<cmdVars, selVars>>

\* open(pdfbox_path, 'wb'): lines 108-109.  The file now exists under its
\* final name, empty.
OpenJarFile(p) ==
    /\ pc[p] = "open"
    /\ cache' = [n \in Names \cup {PathName(url[p])} |->
                    IF n = PathName(url[p])
                    THEN [data |-> <<>>, verified |-> FALSE]
                    ELSE cache[n]]
    /\ offset' = [offset EXCEPT ![p] = 0]
    /\ pc' = [pc EXCEPT ![p] = "write"]
    /\ UNCHANGED <<env, cacheDir, listing, url, data, ret, netCount, scans, built>>
    /\ UNCHANGED <<cmdVars, selVars>>

\* f.write(data), a byte at a time; the file is closed after the last one
WriteJarFile(p) ==
    /\ pc[p] = "write"
    /\ LET n == PathName(url[p])
           content == WriteAt(cache[n].data, offset[p], data[p][offset[p] + 1])
       IN  cache' = [cache EXCEPT ![n] = [data |-> content, verified |-> FALSE]]
    /\ offset' = [offset EXCEPT ![p] = @ + 1]
    /\ pc' = [pc EXCEPT ![p] = IF offset[p] + 1 = Len(data[p])
                                THEN "fetch_sha" ELSE "write"]
    /\ UNCHANGED <<env, cacheDir, listing, url, data, ret, netCount, scans, built>>
    /\ UNCHANGED <<cmdVars, selVars>>

\* urlopen(sha512_url), read, strip, _verify_sha512: lines 112-122.
\* cache[n].verified records that the bytes on disk are bytes that passed.
VerifyChecksum(p) ==
    /\ pc[p] = "fetch_sha"
    /\ netCount' = [netCount EXCEPT ![p] = @ + 1]
    /\ \/ /\ pc' = [pc EXCEPT ![p] = "failed"]
          /\ \/ ret' = [ret EXCEPT ![p] = Raise("URLError", "urlopen error")]
             \/ ret' = [ret EXCEPT ![p] =
                          Raise("RuntimeError", "error retrieving sha512sum")]
          /\ UNCHANGED cache
       \/ \E text \in ShaTexts :
             LET sha512 == Strip(text, Whitespace)
                 n == PathName(url[p])
             IN  IF ~ _verify_sha512(data[p], sha512)
                 THEN /\ pc' = [pc EXCEPT ![p] = "failed"]
                      /\ ret' = [ret EXCEPT ![p] =
                                   Raise("RuntimeError",
                                         "failed to verify sha512sum")]
                      /\ UNCHANGED cache
                 ELSE /\ pc' = [pc EXCEPT ![p] = "which"]
                      /\ cache' = [cache EXCEPT ![n].verified =
                                      @ \/ cache[n].data = data[p]]
                      /\ ret' = [ret EXCEPT ![p] =
                                   [NoRet EXCEPT
                                       !.kind = "download", !.path = n,
                                       !.verified = cache[n].data = data[p]]]
    /\ UNCHANGED <<env, cacheDir, listing, url, data, offset, scans, built>>
    /\ UNCHANGED <<cmdVars, selVars>>

\* shutil.which('java'): lines 126-128
FindJava(p) ==
    /\ pc[p] = "which"
    /\ \E java_path \in JavaPaths :
          IF java_path = <<>>
          THEN /\ pc' = [pc EXCEPT ![p] = "failed"]
               /\ ret' = [ret EXCEPT ![p].exc = "RuntimeError",
                                      ![p].msg = "java not found"]
          ELSE /\ pc' = [pc EXCEPT ![p] = "done"]
               /\ UNCHANGED ret
    /\ UNCHANGED <<env, cacheDir, cache, listing, url, data, offset, netCount, scans, built>>
    /\ UNCHANGED <<cmdVars, selVars>>

(***************************************************************************)
(* The command lines.  An optional argument is <<>> (None) or <<value>>;   *)
(* a command line is the sequence of the words the format string yields.   *)
(***************************************************************************)
None == <<>>

\* '{n}'.format(n=n) of an integer: its decimal string
FormatInt(n) == ToString(n)

\* (' -flag {v}'.format(v=v) if v else '') for a string argument
StrOption(flag, o) ==
    IF o # None /\ o[1] # "" THEN <<flag, o[1]>> ELSE <<>>

\* (' -flag {v}'.format(v=v) if v else '') for an integer argument
IntOption(flag, o) ==
    IF o # None /\ o[1] # 0 THEN <<flag, FormatInt(o[1])>> ELSE <<>>

\* (' -flag' if b else '')
BoolOption(flag, b) == IF b THEN <<flag>> ELSE <<>>

\* (' -cropbox {cropbox}'.format(cropbox=" ".join(cropbox)) if cropbox else '')
ListOption(flag, o) ==
    IF o # None /\ o[1] # <<>> THEN <<flag>> \o o[1] ELSE <<>>

java_path == "/usr/bin/java"
pdfbox_path == "pdfbox-app.jar"

Prefix(tool) == <<java_path, "-jar", pdfbox_path, tool>>

\* a -console that is added whatever the output path
ConsoleAlways(output_path) == <<"-console">>

\* if not output_path: options += ' -console'
ConsoleOption(output_path) ==
    IF output_path = "" THEN <<"-console">> ELSE <<>>

\* lines 163-172
ExtractTextOptions(a) ==
    StrOption("-password", a.password)
    \o StrOption("-encoding", a.encoding)
    \o BoolOption("-html", a.html)
    \o BoolOption("-sort", a.sort)
    \o BoolOption("-ignoreBeads", a.ignore_beads)
    \o IntOption("-startPage", a.start_page)
    \o IntOption("-endPage", a.end_page)
    \o BoolOption("-alwaysNext", a.always_next)
    \o ConsoleOption(a.output_path)

\* lines 173-177: the output path is a word of its own only when not ''
ExtractTextCmd(a) ==
    Prefix("ExtractText") \o ExtractTextOptions(a) \o <<a.input_path>>
    \o (IF a.output_path = "" THEN <<>> ELSE <<a.output_path>>)

\* lines 181-183: p.stdout.text without an output path, else p
ExtractTextReturn(a) ==
    IF a.output_path = "" THEN [kind |-> "text"] ELSE [kind |-> "handle"]

\* lines 201-208
SplitFileCmd(a) ==
    Prefix("PDFSplit")
    \o StrOption("-password", a.password)
    \o IntOption("-startPage", a.start_page)
    \o IntOption("-endPage", a.end_page)
    \o IntOption("-split", a.split)
    \o <<a.input_path>>

\* lines 225-228
MergeCmd(source_files, target_file) ==
    Prefix("PDFMerger") \o source_files \o <<target_file>>

\* lines 235-240
PdfDebuggerCmd(a) ==
    Prefix("PDFDebugger") \o <<a.input_path>>
    \o StrOption("-password", a.password)
    \o BoolOption("-viewstructure", a.view_structure)

\* lines 252-265
ToImageCmd(a) ==
    Prefix("PDFToImage") \o <<a.input_path>>
    \o StrOption("-password", a.password)
    \o StrOption("-imageType", a.image_type)
    \o StrOption("-outputPrefix", a.output_prefix)
    \o IntOption("-startPage", a.start_page)
    \o IntOption("-endPage", a.end_page)
    \o IntOption("-page", a.page)
    \o IntOption("-dpi", a.dpi)
    \o StrOption("-color", a.color)
    \o ListOption("-cropbox", a.cropbox)
    \o StrOption("-color", a.color)

\* argument values the calls are tried with
Passwords == {None, <<"secret">>}
Encodings == {None, <<"UTF-8">>}
StartPages == {None, <<1>>}
EndPages == {None, <<2>>}
OutputPaths == {"", "out.txt"}

ExtractTextArgs ==
    [input_path : {"test.pdf"}, output_path : OutputPaths,
     password : Passwords, encoding : Encodings, html : BOOLEAN,
     sort : BOOLEAN, ignore_beads : BOOLEAN,
     start_page : StartPages, end_page : EndPages, always_next : BOOLEAN]

SplitFileArgs ==
    [input_path : {"test.pdf"}, password : Passwords, split : {None, <<1>>},
     start_page : StartPages, end_page : EndPages]

PdfDebuggerArgs ==
    [input_path : {"test.pdf"}, password : Passwords, view_structure : BOOLEAN]

ToImageArgs ==
    [input_path : {"test.pdf"}, password : Passwords,
     image_type : {None, <<"png">>}, output_prefix : {None, <<"out">>},
     start_page : StartPages, end_page : EndPages, page : {None, <<2>>},
     dpi : {None, <<24>>}, color : {None, <<"rgb">>},
     cropbox : {None, << <<"0", "0", "9", "9">> >>}, time : BOOLEAN]

SourceNames == {"test.pdf", "test1.pdf"}

\* the lists of at most MaxSources source files
SourceLists == UNION {[1..n -> SourceNames] : n \in 0..MaxSources}

\* extract_text: lines 130-183
ExtractText ==
    /\ \E a \in ExtractTextArgs :
          /\ call' = [op |-> "extract_text", args |-> a]
          /\ cmd' = ExtractTextCmd(a)
          /\ retval' = ExtractTextReturn(a)
    /\ UNCHANGED <<resVars, selVars>>

\* split_file: lines 185-209
SplitFile ==
    /\ \E a \in SplitFileArgs :
          /\ call' = [op |-> "split_file", args |-> a]
          /\ cmd' = SplitFileCmd(a)
          /\ retval' = [kind |-> "none"]
    /\ UNCHANGED <<resVars, selVars>>

\* merge: lines 211-229; fewer than two sources run nothing
Merge ==
    /\ \E source_files \in SourceLists :
          /\ call' = [op |-> "merge",
                      args |-> [source_files |-> source_files,
                                target_file |-> "merged.pdf"]]
          /\ cmd' = IF Len(source_files) < 2 THEN <<>>
                    ELSE MergeCmd(source_files, "merged.pdf")
          /\ retval' = [kind |-> "none"]
    /\ UNCHANGED <<resVars, selVars>>

\* pdf_debugger: lines 231-241
PdfDebugger ==
    /\ \E a \in PdfDebuggerArgs :
          /\ call' = [op |-> "pdf_debugger", args |-> a]
          /\ cmd' = PdfDebuggerCmd(a)
          /\ retval' = [kind |-> "none"]
    /\ UNCHANGED <<resVars, selVars>>

\* to_image: lines 243-266
ToImage ==
    /\ \E a \in ToImageArgs :
          /\ call' = [op |-> "to_image", args |-> a]
          /\ cmd' = ToImageCmd(a)
          /\ retval' = [kind |-> "none"]
    /\ UNCHANGED <<resVars, selVars>>

NextCmd == ExtractText \/ SplitFile \/ Merge \/ PdfDebugger \/ ToImage

InitCmd ==
    /\ call = [op |-> "none"]
    /\ cmd = <<>>
    /\ retval = [kind |-> "none"]

\* nothing selected yet
NoneChosen == [done |-> {}, url |-> <<>>, path |-> <<>>]

Init ==
    /\ InitRes
    /\ InitCmd
    /\ tried = [versions |-> <<>>, page |-> <<>>, files |-> <<>>]
    /\ chosen = NoneChosen

Next ==
    \/ \E p \in Procs : Construct(p)
    \/ \E p \in Procs : GetLatestPdfboxUrl(p)
    \/ \E p \in Procs : DownloadJar(p)
    \/ \E p \in Procs : CheckCacheDir(p)
    \/ \E p \in Procs : MakeCacheDir(p)
    \/ \E p \in Procs : OpenJarFile(p)
    \/ \E p \in Procs : WriteJarFile(p)
    \/ \E p \in Procs : VerifyChecksum(p)
    \/ \E p \in Procs : FindJava(p)

Spec == Init /\ [][Next]_vars

SpecCmd == Init /\ [][NextCmd]_vars

(***************************************************************************)
(* The selection of the latest version on its own: lines 66-70 on an       *)
(* archive page, lines 89-94 on the files of a cache directory.            *)
(***************************************************************************)
\* the versions it is tried on: 0.8.0-incubating, 2.9.0, 2.10.0, 2.10.0.0,
\* 3.0.0-alpha2, 3.0.0-beta1, 3.0.0-RC1, 3.0.0 and 3.1
Versions ==
    {<<48, 46, 56, 46, 48, 45, 105, 110, 99, 117, 98, 97, 116, 105, 110, 103>>,
     <<50, 46, 57, 46, 48>>,
     <<50, 46, 49, 48, 46, 48>>,
     <<50, 46, 49, 48, 46, 48, 46, 48>>,
     <<51, 46, 48, 46, 48, 45, 97, 108, 112, 104, 97, 50>>,
     <<51, 46, 48, 46, 48, 45, 98, 101, 116, 97, 49>>,
     <<51, 46, 48, 46, 48, 45, 82, 67, 49>>,
     <<51, 46, 48, 46, 48>>,
     <<51, 46, 49>>}

\* the lists of at most MaxEntries versions, no version twice
VersionLists ==
    UNION {{q \in [1..n -> Versions] :
               \A i \in 1..n : \A j \in 1..n : q[i] = q[j] => i = j} :
           n \in 1..MaxEntries}

\* 'pdfbox-app-' + version + '.jar'
JarNameOf(v) == PdfboxApp \o v \o DotJar

\* the archive page that lists the versions, in their order
RECURSIVE PageOf(_)
PageOf(versions) ==
    IF versions = <<>> THEN <<ParentLink>>
    ELSE PageOf(SubSeq(versions, 1, Len(versions) - 1))
         \o <<Anchor(versions[Len(versions)] \o <<47>>)>>

\* the jars of the versions, as glob lists them
RECURSIVE FilesOf(_)
FilesOf(versions) ==
    IF versions = <<>> THEN <<>>
    ELSE <<JarNameOf(Head(versions))>> \o FilesOf(Tail(versions))

InitSel ==
    /\ InitRes
    /\ InitCmd
    /\ chosen = NoneChosen
    /\ \E versions \in VersionLists :
          tried = [versions |-> versions, page |-> PageOf(versions),
                   files |-> FilesOf(versions)]

\* p.feed(data) and lines 68-70 on the page
SelectLatestUrl ==
    /\ "url" \notin chosen.done
    /\ chosen' = [chosen EXCEPT !.done = @ \cup {"url"},
                                !.url = LatestUrl(feed(tried.page))]
    /\ UNCHANGED <<tried, resVars, cmdVars>>

\* lines 89-94 on the files: return sorted(file_list, key=f)[-1]
SelectCached ==
    /\ "path" \notin chosen.done
    /\ chosen' = [chosen EXCEPT
                     !.done = @ \cup {"path"},
                     !.path = LatestCached(SelectSeq(tried.files, GlobMatches))]
    /\ UNCHANGED <<tried, resVars, cmdVars>>

NextSel == SelectLatestUrl \/ SelectCached

SpecSel == InitSel /\ [][NextSel]_vars

(***************************************************************************)
(* Claims about the resolution of the jar                                  *)
(***************************************************************************)
\* '2.9.0' and '2.10.0'
V2_9_0 == <<50, 46, 57, 46, 48>>
V2_10_0 == <<50, 46, 49, 48, 46, 48>>

\* numbers of "0".."9" with single dots between them
DottedNumbers(r) ==
    /\ r # <<>>
    /\ \A i \in 1..Len(r) : r[i] \in AsciiDigits \cup {46}
    /\ r[1] # 46
    /\ r[Len(r)] # 46
    /\ \A i \in 1..(Len(r) - 1) : ~ (r[i] = 46 /\ r[i + 1] = 46)

\* the numbers of a version: what comes before its first "-"
NumbersOf(v) ==
    LET dashes == {i \in 1..Len(v) : v[i] = 45}
    IN  IF dashes = {} THEN v
        ELSE SubSeq(v, 1, (CHOOSE i \in dashes : \A j \in dashes : i <= j) - 1)

\* the qualifier of a version: what comes from its first "-" on
QualifierOf(v) == SubSeq(v, Len(NumbersOf(v)) + 1, Len(v))

\* the pre-release qualifiers '-alpha', '-beta' and '-RC', in their order
Qualifiers ==
    << <<45, 97, 108, 112, 104, 97>>, <<45, 98, 101, 116, 97>>,
       <<45, 82, 67>> >>

\* the place of a qualifier: 1, 2, 3 for -alpha<n>, -beta<n>, -RC<n>; 4 for
\* none, a release; 0 for any other text
QualifierRank(q) ==
    IF q = <<>> THEN 4
    ELSE LET ks == {k \in 1..3 :
                       /\ Len(q) > Len(Qualifiers[k])
                       /\ SubSeq(q, 1, Len(Qualifiers[k])) = Qualifiers[k]
                       /\ \A i \in (Len(Qualifiers[k]) + 1)..Len(q) :
                              q[i] \in AsciiDigits}
         IN  IF ks = {} THEN 0 ELSE CHOOSE k \in ks : TRUE

\* the number of a qualifier of rank 1, 2 or 3
QualifierNumber(q) ==
    Numeral(SubSeq(q, Len(Qualifiers[QualifierRank(q)]) + 1, Len(q)))

\* a well-formed version: dotted numbers, then nothing or a pre-release
\* qualifier; 2.10.0, 3.1 and 3.0.0-RC1 are, 0.8.0-incubating is not
WellFormed(v) ==
    DottedNumbers(NumbersOf(v)) /\ QualifierRank(QualifierOf(v)) > 0

\* -1, 0, 1 as the numbers of a are less than, equal to or greater than
\* those of b, compared as numbers from the left, a missing one counting as 0
CompareNumbers(a, b) ==
    LET ra == Split(NumbersOf(a), {46})
        rb == Split(NumbersOf(b), {46})
        n  == IF Len(ra) > Len(rb) THEN Len(ra) ELSE Len(rb)
        A(i) == IF i <= Len(ra) THEN Numeral(ra[i]) ELSE <<>>
        B(i) == IF i <= Len(rb) THEN Numeral(rb[i]) ELSE <<>>
        differ == {k \in 1..n : A(k) # B(k)}
        first == CHOOSE k \in differ : \A j \in differ : k <= j
    IN  IF differ = {} THEN 0
        ELSE IF NumLess(A(first), B(first)) THEN -1 ELSE 1

\* a is not greater than b under version ordering, for well-formed a and b:
\* by their numbers; with equal numbers a pre-release comes before the
\* release, alpha before beta before RC, and then by the qualifier's number
VersionLeq(a, b) ==
    LET qa == QualifierOf(a)
        qb == QualifierOf(b)
    IN  \/ CompareNumbers(a, b) = -1
        \/ /\ CompareNumbers(a, b) = 0
           /\ \/ QualifierRank(qa) < QualifierRank(qb)
              \/ /\ QualifierRank(qa) = QualifierRank(qb)
                 /\ \/ QualifierRank(qa) = 4
                    \/ ~ NumLess(QualifierNumber(qb), QualifierNumber(qa))

\* every entry of a list of versions is well-formed
AllWellFormed(vs) == \A j \in 1..Len(vs) : WellFormed(vs[j])

\* the versions embedded in the names of a list of jars that f's pattern
\* matches
RECURSIVE EmbeddedVersions(_)
EmbeddedVersions(file_list) ==
    IF file_list = <<>> THEN <<>>
    ELSE <<EmbeddedVersion(Head(file_list))>>
         \o EmbeddedVersions(Tail(file_list))

\* the page has an <a> whose href, slashes stripped, holds a version
HasVersionAnchor(page) ==
    \E i \in 1..Len(page) :
        /\ page[i].tag = "a"
        /\ \E k \in 1..Len(page[i].attrs) :
              /\ page[i].attrs[k][1] = "href"
              /\ ReSearchVersion(Strip(page[i].attrs[k][2], {47}))

\* C1: when the digest of the downloaded body differs from the fetched
\* checksum (the construction failed with 'failed to verify sha512sum', no
\* override, the cache empty when it started and nobody else at work), no
\* pdfbox-app-<version>.jar exists in the cache directory afterwards.
C1_NoJarAfterChecksumMismatch ==
    \A p \in Procs :
        ( /\ pc[p] = "failed"
          /\ ret[p].msg = "failed to verify sha512sum"
          /\ env[p] = NoOverride
          /\ \A q \in Procs \ {p} : built[q] = 0 )
        => \A n \in Names : ~ GlobMatches(n)

\* C2: with the PDFBOX override set, a construction makes no network request
\* and no cache scan; an existing path is the resolved path, a missing one
\* fails the construction with 'pdfbox not found'.
C2_OverrideBypassesNetworkAndCache ==
    \A p \in Procs :
        env[p] # NoOverride =>
            /\ netCount[p] = 0
            /\ scans[p] = 0
            /\ pc[p] \in {"which", "done", "failed"}
            /\ env[p] \in ExistingPaths =>
                  ret[p].kind = "override" /\ ret[p].path = env[p]
            /\ env[p] \notin ExistingPaths =>
                  /\ pc[p] = "failed"
                  /\ ret[p].kind = "error"
                  /\ ret[p].msg = "pdfbox not found"

C2_Witness ==
    \E p \in Procs : \E q \in Procs :
        /\ env[p] \in Overrides \ ExistingPaths
        /\ pc[p] = "failed"
        /\ env[q] \in ExistingPaths
        /\ pc[q] = "done"
        /\ ret[q].path = env[q]

\* a construction of p begins in this step, without override
StartsPlain(p) == built'[p] = built[p] + 1 /\ env'[p] = NoOverride

\* C3: with no override and a cache directory that holds at least one
\* pdfbox-app-*.jar, a construction makes no network request, leaves the
\* cache directory as it is, downloads nothing and returns the path of a
\* cached jar; constructions that see the same directory contents return
\* the same path.
C3_CacheHitIdempotent ==
    /\ [][\A p \in Procs :
            (StartsPlain(p) /\ \E n \in Names : GlobMatches(n)) =>
                /\ cache' = cache
                /\ netCount'[p] = 0
                /\ pc'[p] = "which"
                /\ ret'[p].kind = "cache"
                /\ ret'[p].path \in Names
                /\ (ret[p].kind = "cache" /\ ret[p].seen = Names) =>
                      ret'[p].path = ret[p].path]_vars
    /\ [](\A p \in Procs : \A q \in Procs :
            ( /\ ret[p].kind = "cache"
              /\ ret[q].kind = "cache"
              /\ ret[p].seen = ret[q].seen )
            => ret[p].path = ret[q].path)
    /\ [](\A p \in Procs :
            (ret[p].kind = "cache" /\ pc[p] \in {"which", "done", "failed"})
            => netCount[p] = 0)

\* C4: whenever no construction is under way, every artifact present in the
\* cache under its final name holds bytes that passed checksum verification.
C4_CachedArtifactsVerified ==
    (\A p \in Procs : pc[p] \in Finished \cup {"idle"})
    => \A n \in Names : cache[n].verified

\* C5: for a catalogue of well-formed versions that is not empty, the URL
\* built is the one of a version of the catalogue that no version of the
\* catalogue exceeds under version ordering (numeric, component by
\* component, so 2.10.0 > 2.9.0); and among cached jars whose embedded
\* versions are well-formed, the jar returned is one whose embedded version
\* none of the others exceeds.
C5_SelectsGreatestVersion ==
    LET Greatest(vs, i) == \A j \in 1..Len(vs) : VersionLeq(vs[j], vs[i])
        UrlOfGreatest(vs) ==
            (vs # <<>> /\ AllWellFormed(vs)) =>
                \E i \in 1..Len(vs) :
                    /\ chosen.url = pdfbox_archive_url \o vs[i] \o <<47>>
                                       \o JarNameOf(vs[i])
                    /\ Greatest(vs, i)
        JarOfGreatest(file_list, vs) ==
            (file_list # <<>> /\ AllWellFormed(vs)) =>
                \E i \in 1..Len(vs) :
                    /\ chosen.path = file_list[i]
                    /\ Greatest(vs, i)
    IN  /\ "url" \in chosen.done => UrlOfGreatest(feed(tried.page))
        /\ "path" \in chosen.done =>
              JarOfGreatest(tried.files, EmbeddedVersions(tried.files))

\* 2.9.0 is listed after 2.10.0, and the URL and the jar of 2.10.0 are chosen
C5_Witness ==
    /\ chosen.done = {"url", "path"}
    /\ tried.versions = <<V2_10_0, V2_9_0>>
    /\ chosen.url = pdfbox_archive_url \o V2_10_0 \o <<47>>
                       \o JarNameOf(V2_10_0)
    /\ chosen.path = JarNameOf(V2_10_0)

\* C6: when the archive page holds no anchor that matches the version
\* pattern, the construction fails with a resolution error, a RuntimeError
\* as every resolution failure the code reports, after that one request: no
\* jar or checksum is requested and nothing is downloaded or written.
C6_EmptyCatalogueFails ==
    \A p \in Procs :
        (listing[p] # <<>> /\ ~ HasVersionAnchor(listing[p])) =>
            /\ pc[p] = "failed"
            /\ ret[p].kind = "error"
            /\ ret[p].exc = "RuntimeError"
            /\ netCount[p] = 1
            /\ url[p] = <<>>
            /\ data[p] = <<>>

\* C10: a construction without override that completes returns the path of
\* a file whose bytes, when it was returned, had passed verification.
C10_ConcurrentResolveSound ==
    \A p \in Procs :
        ( /\ pc[p] = "done"
          /\ env[p] = NoOverride
          /\ ret[p].kind \in {"cache", "download"} )
        => ret[p].verified

(***************************************************************************)
(* Claims about the command lines                                          *)
(***************************************************************************)
FlagWords ==
    {"-password", "-encoding", "-html", "-sort", "-ignoreBeads", "-startPage",
     "-endPage", "-alwaysNext", "-split", "-viewstructure", "-imageType",
     "-outputPrefix", "-page", "-dpi", "-color", "-cropbox"}

IsFlagWord(w) == w \in FlagWords

\* the flags of a command line, in the order they appear
FlagsOf(c) == SelectSeq(c, IsFlagWord)

When(given, flag) == IF given THEN <<flag>> ELSE <<>>

\* the flags whose values the call provides, once each, in the operation's
\* order.  A value that comes from a default (start_page=1 of extract_text)
\* counts as provided, and to_image's time argument, for which the code
\* has no flag, is left out.
ProvidedFlags(c) ==
    LET a == c.args
    IN  CASE c.op = "extract_text" ->
                When(a.password # None, "-password")
                \o When(a.encoding # None, "-encoding")
                \o When(a.html, "-html")
                \o When(a.sort, "-sort")
                \o When(a.ignore_beads, "-ignoreBeads")
                \o When(a.start_page # None, "-startPage")
                \o When(a.end_page # None, "-endPage")
                \o When(a.always_next, "-alwaysNext")
          [] c.op = "split_file" ->
                When(a.password # None, "-password")
                \o When(a.start_page # None, "-startPage")
                \o When(a.end_page # None, "-endPage")
                \o When(a.split # None, "-split")
          [] c.op = "pdf_debugger" ->
                When(a.password # None, "-password")
                \o When(a.view_structure, "-viewstructure")
          [] OTHER ->
                When(a.password # None, "-password")
                \o When(a.image_type # None, "-imageType")
                \o When(a.output_prefix # None, "-outputPrefix")
                \o When(a.start_page # None, "-startPage")
                \o When(a.end_page # None, "-endPage")
                \o When(a.page # None, "-page")
                \o When(a.dpi # None, "-dpi")
                \o When(a.color # None, "-color")
                \o When(a.cropbox # None, "-cropbox")

\* C7: for extract_text, split_file, pdf_debugger and to_image the flags of
\* the command line are exactly the flags whose values were provided, each
\* once, in the operation's fixed order.
C7_FlagsExactlyThoseProvided ==
    call.op \in {"extract_text", "split_file", "pdf_debugger", "to_image"}
    => FlagsOf(cmd) = ProvidedFlags(call)

HasWord(c, w) == \E i \in 1..Len(c) : c[i] = w

\* C8: extract_text adds -console and returns the captured text exactly when
\* no output path is given; with an output path there is no -console and
\* the process handle is returned.
C8_ExtractTextDualMode ==
    call.op = "extract_text" =>
        /\ HasWord(cmd, "-console") <=> call.args.output_path = ""
        /\ call.args.output_path = "" => retval.kind = "text"
        /\ call.args.output_path # "" =>
              retval.kind = "handle" /\ cmd[Len(cmd)] = call.args.output_path

C8_Witness ==
    /\ call.op = "extract_text"
    /\ call.args.output_path = ""
    /\ call.args.password # None
    /\ call.args.html
    /\ cmd[Len(cmd) - 1] = "-console"
    /\ retval.kind = "text"
============================================================================
